---------------------------- MODULE Spec2Model ----------------------------
(***************************************************************************)
(* Model of the chat-driven scheduling assistant: the ChatService session  *)
(* store and function-dispatch loop (app/services/chat.py), the            *)
(* /chat/message endpoint (app/api/routers/chat.py) and the CalComService  *)
(* adapter (app/services/calcom.py).                                       *)
(*                                                                         *)
(* Encoding.  Dates are day numbers and instants are minutes (DayLen       *)
(* minutes to a day), so "%Y-%m-%d" of an instant is its integer day.      *)
(* Absent stands for a missing (None) numeric or date argument, BadValue   *)
(* for a string that does not parse; "" stands for a missing string.       *)
(***************************************************************************)
EXTENDS Integers, Naturals, Sequences, FiniteSets, TLC

VARIABLES sessions, req, uuids, hcall, hworld, hout

vars == <<sessions, req, uuids, hcall, hworld, hout>>

(***************************************************************************)
(* Bounds of the model.                                                    *)
(***************************************************************************)
MaxReq == 2
MaxCalls == 2
MaxEts == 3
MaxAlt == 12

(***************************************************************************)
(* Program constants.                                                      *)
(***************************************************************************)
DefaultDuration == 30
PrimaryWindowDays == 7
AlternativeWindowDays == 14
AlternativeLimit == 10
DayLen == 1440

Absent == -1
BadValue == -2
NoExc == "none"
NoSession == ""

Requests == 1..MaxReq

Min(S) == CHOOSE x \in S : \A y \in S : x <= y

Abs(x) == IF x < 0 THEN -x ELSE x

IsPrefix(s, t) == Len(s) <= Len(t) /\ SubSeq(t, 1, Len(s)) = s

Take(s, n) == SubSeq(s, 1, IF Len(s) < n THEN Len(s) ELSE n)

RECURSIVE SelectIdx(_, _, _)
\* indices i >= from of s, in order, whose element is in the set keep
SelectIdx(s, keep, from) ==
    IF from > Len(s) THEN <<>>
    ELSE IF s[from] \in keep THEN <<from>> \o SelectIdx(s, keep, from + 1)
    ELSE SelectIdx(s, keep, from + 1)

(***************************************************************************)
(* Exceptions (app/exceptions/base.py): the class name and its status.     *)
(***************************************************************************)
StatusOf(cls) ==
    CASE cls = "ValidationError" -> 400
      [] cls = "NotFoundError" -> 404
      [] OTHER -> 500

\* an exception object: class, str(e), and for an AppException its
\* status_code and details (0 and {} otherwise)
Exc(cls, message, status_code, details) ==
    [cls |-> cls, message |-> message, status_code |-> status_code,
     details |-> details]

NoException == Exc(NoExc, "", 0, <<>>)

\* the exception an outcome carries
ExcOf(out) == Exc(out.raised, out.msg, out.status_code, out.details)

\* an outcome of an operation: the value it returned or the exception it
\* raised (class, str(e), status_code, details), and the provider calls made
Returned(v, calls) ==
    [raised |-> NoExc, msg |-> "", value |-> v, calls |-> calls,
     status_code |-> 0, details |-> <<>>]

Raised(cls, msg, calls) ==
    [raised |-> cls, msg |-> msg, value |-> <<>>, calls |-> calls,
     status_code |-> StatusOf(cls), details |-> <<>>]

\* _make_request, lines 62-68: the provider answered with an error status
UpstreamError(status_code, text, calls) ==
    [raised |-> "CalComAPIError",
     msg |-> "Cal.com API error: " \o ToString(status_code),
     value |-> <<>>, calls |-> calls,
     status_code |-> status_code, details |-> [response |-> text]]

\* _make_request, lines 69-74: the request did not get an answer
TransportError(text, calls) ==
    [raised |-> "CalComAPIError",
     msg |-> "Cal.com API request error: " \o text,
     value |-> <<>>, calls |-> calls,
     status_code |-> 500, details |-> [error |-> text]]

(***************************************************************************)
(* The scheduling provider, as CalComService sees it.  A world w is the    *)
(* provider's state during one handler: its event types in listing order,  *)
(* its free slot instants in response order, and which endpoints fail.     *)
(***************************************************************************)
ProviderCall(op, etid, start, end) ==
    [op |-> op, eventTypeId |-> etid, startTime |-> start, endTime |-> end]

\* the slots the provider reports for a query window [start, end)
ProviderSlots(w, start, end) ==
    LET keep == {t \in {w.slots[i] : i \in DOMAIN w.slots} : t >= start /\ t < end}
    IN [i \in 1..Len(SelectIdx(w.slots, keep, 1)) |-> w.slots[SelectIdx(w.slots, keep, 1)[i]]]

CalComGetEventTypes(w) ==
    IF w.etsFail
    THEN UpstreamError(500, "error",
                       <<ProviderCall("GET event-types", Absent, Absent, Absent)>>)
    ELSE Returned(w.ets, <<ProviderCall("GET event-types", Absent, Absent, Absent)>>)

\* mutant: the end of a slot is the one the provider attaches to it
CalComGetAvailableSlots_ProviderEnd(w, event_type_id, start_date, end_date) ==
    LET e == CalComGetEventTypes(w)
        found == {i \in DOMAIN e.value : e.value[i].id = event_type_id}
        query == ProviderCall("GET slots", event_type_id, start_date, end_date)
    IN  IF e.raised # NoExc THEN e
        ELSE IF found = {} THEN Returned(<<>>, e.calls)
        ELSE IF w.slotsFail THEN Returned(<<>>, Append(e.calls, query))
        ELSE LET times == ProviderSlots(w, start_date, end_date)
             IN Returned([i \in 1..Len(times) |->
                              [start |-> times[i], end |-> times[i] + w.slotLength]],
                         Append(e.calls, query))

CalComGetAvailableSlots(w, event_type_id, start_date, end_date) ==
    LET e == CalComGetEventTypes(w)
        found == {i \in DOMAIN e.value : e.value[i].id = event_type_id}
        query == ProviderCall("GET slots", event_type_id, start_date, end_date)
    IN  IF e.raised # NoExc THEN e
        ELSE IF found = {} THEN Returned(<<>>, e.calls)
        ELSE IF w.slotsFail THEN Returned(<<>>, Append(e.calls, query))
        ELSE LET event_type == e.value[Min(found)]
                 duration == IF event_type.length # 0 THEN event_type.length
                             ELSE DefaultDuration
                 times == ProviderSlots(w, start_date, end_date)
             IN Returned([i \in 1..Len(times) |->
                              [start |-> times[i], end |-> times[i] + duration]],
                         Append(e.calls, query))

\* _make_request("POST", "bookings") under the answer the provider gives to
\* this attempt: "ok", "timeout" (no answer), or the text of an error response
BookingAttempt(answer, booking, calls) ==
    CASE answer = "ok" -> Returned(booking, calls)
      [] answer = "timeout" -> TransportError("timed out", calls)
      [] answer = "conflict" -> UpstreamError(409, answer, calls)
      [] OTHER -> UpstreamError(500, answer, calls)

\* line 239: "no_available_users_found_error" in str(e.details)
NoAvailableUsers(e) ==
    IF "response" \in DOMAIN e.details
    THEN e.details.response = "no_available_users_found_error"
    ELSE FALSE

\* mutant: the booking request is repeated after any failure
CalComBookEvent_RetryAny(w, event_type_id, start_time, end_time, name, email, title) ==
    LET first == ProviderCall("POST bookings inPerson", event_type_id, start_time, end_time)
        retry == ProviderCall("POST bookings userPhone", event_type_id, start_time, end_time)
        booking == [uid |-> w.uid,
                    title |-> IF title # "" THEN title ELSE "Meeting with " \o name,
                    start_time |-> start_time, end_time |-> end_time,
                    status |-> "ACCEPTED",
                    attendees |-> <<[email |-> email, name |-> name]>>]
        attempt == BookingAttempt(w.book[1], booking, <<first>>)
    IN  IF attempt.raised = NoExc THEN attempt
        ELSE BookingAttempt(w.book[2], booking, <<first, retry>>)

CalComBookEvent(w, event_type_id, start_time, end_time, name, email, title) ==
    LET first == ProviderCall("POST bookings inPerson", event_type_id, start_time, end_time)
        retry == ProviderCall("POST bookings userPhone", event_type_id, start_time, end_time)
        booking == [uid |-> w.uid,
                    title |-> IF title # "" THEN title ELSE "Meeting with " \o name,
                    start_time |-> start_time, end_time |-> end_time,
                    status |-> "ACCEPTED",
                    attendees |-> <<[email |-> email, name |-> name]>>]
        attempt == BookingAttempt(w.book[1], booking, <<first>>)
    IN  IF attempt.raised = NoExc THEN attempt
        ELSE IF NoAvailableUsers(attempt)
        THEN BookingAttempt(w.book[2], booking, <<first, retry>>)
        ELSE attempt

Lower(s) ==
    CASE s = "JANE@EXAMPLE.COM" -> "jane@example.com"
      [] s = "Jane@Example.com" -> "jane@example.com"
      [] s = "Bob@Example.com" -> "bob@example.com"
      [] OTHER -> s

\* mutant: the emails are compared as they are written
CalComGetBookings_CaseSensitive(w, email, start_date, end_date) ==
    LET query == ProviderCall("GET bookings", Absent, start_date, end_date)
        keep == {b \in {w.bookings[i] : i \in DOMAIN w.bookings} :
                    \E i \in DOMAIN b.attendees : b.attendees[i].email = email}
        idx == SelectIdx(w.bookings, keep, 1)
    IN  IF w.bookingsFail THEN UpstreamError(500, "error", <<query>>)
        ELSE IF email # "" THEN Returned([i \in 1..Len(idx) |-> w.bookings[idx[i]]], <<query>>)
        ELSE Returned(w.bookings, <<query>>)

CalComGetBookings(w, email, start_date, end_date) ==
    LET query == ProviderCall("GET bookings", Absent, start_date, end_date)
        keep == {b \in {w.bookings[i] : i \in DOMAIN w.bookings} :
                    \E i \in DOMAIN b.attendees : Lower(b.attendees[i].email) = Lower(email)}
        idx == SelectIdx(w.bookings, keep, 1)
    IN  IF w.bookingsFail THEN UpstreamError(500, "error", <<query>>)
        ELSE IF email # "" THEN Returned([i \in 1..Len(idx) |-> w.bookings[idx[i]]], <<query>>)
        ELSE Returned(w.bookings, <<query>>)

CalComCancelBooking(w, booking_id) ==
    LET query == ProviderCall("DELETE bookings/" \o booking_id, Absent, Absent, Absent)
        found == {i \in DOMAIN w.bookings : w.bookings[i].uid = booking_id}
    IN  IF w.cancelFail \/ found = {} THEN UpstreamError(404, "not found", <<query>>)
        ELSE Returned([status |-> "CANCELLED"], <<query>>)

CalComRescheduleBooking(w, booking_id, start_time, end_time) ==
    LET query == ProviderCall("PATCH bookings/" \o booking_id, Absent, start_time, end_time)
    IN  IF w.rescheduleFail THEN UpstreamError(404, "not found", <<query>>)
        ELSE Returned([uid |-> booking_id, title |-> "Rescheduled", start_time |-> start_time,
                       end_time |-> end_time, status |-> "ACCEPTED"], <<query>>)

\* get_event: the booking is fetched, then its event type; the provider
\* answers 404 for a booking it does not have (or no longer serves)
CalComGetEvent(w, booking_id) ==
    LET lookup == ProviderCall("GET bookings/" \o booking_id, Absent, Absent, Absent)
        found == {i \in DOMAIN w.bookings : w.bookings[i].uid = booking_id}
        booking == w.bookings[Min(found)]
        detail == ProviderCall("GET event-types/" \o ToString(booking.eventTypeId),
                               booking.eventTypeId, Absent, Absent)
    IN  IF found = {} \/ booking_id \in w.detailFail
        THEN UpstreamError(404, "not found", <<lookup>>)
        ELSE IF w.etsFail THEN UpstreamError(500, "error", <<lookup, detail>>)
        ELSE Returned([uid |-> booking.uid, title |-> booking.title,
                       start_time |-> booking.start_time,
                       end_time |-> booking.end_time, status |-> booking.status,
                       attendees |-> booking.attendees],
                      <<lookup, detail>>)

(***************************************************************************)
(* Default event-type selection (chat.py, _get_available_slots and         *)
(* _book_event): the first event type of the requested duration, else the  *)
(* head of the list sorted (stably, as list.sort is) by duration distance. *)
(***************************************************************************)
RECURSIVE InsertByKey_Unstable(_, _, _)
\* mutant: an unstable sort, equal keys end up in reverse listing order
InsertByKey_Unstable(sorted, et, duration) ==
    IF sorted = <<>> THEN <<et>>
    ELSE IF Abs(Head(sorted).length - duration) < Abs(et.length - duration)
         THEN <<Head(sorted)>> \o InsertByKey_Unstable(Tail(sorted), et, duration)
         ELSE <<et>> \o sorted

RECURSIVE InsertByKey(_, _, _)
InsertByKey(sorted, et, duration) ==
    IF sorted = <<>> THEN <<et>>
    ELSE IF Abs(Head(sorted).length - duration) <= Abs(et.length - duration)
         THEN <<Head(sorted)>> \o InsertByKey(Tail(sorted), et, duration)
         ELSE <<et>> \o sorted

RECURSIVE SortByCloseness(_, _)
SortByCloseness(event_types, duration) ==
    IF event_types = <<>> THEN <<>>
    ELSE InsertByKey(SortByCloseness(SubSeq(event_types, 1, Len(event_types) - 1), duration),
                     event_types[Len(event_types)], duration)

SelectEventType(event_types, duration) ==
    LET exact == {i \in DOMAIN event_types : event_types[i].length = duration}
    IN  IF exact # {} THEN event_types[Min(exact)]
        ELSE SortByCloseness(event_types, duration)[1]

EventTypeName(event_types, event_type_id) ==
    LET found == {i \in DOMAIN event_types : event_types[i].id = event_type_id}
    IN  IF found # {} THEN event_types[Min(found)].title
        ELSE "Event Type " \o ToString(event_type_id)

Omitted(event_type_id) == event_type_id = Absent \/ event_type_id = 0

SlotDicts(slots) ==
    [i \in 1..Len(slots) |->
        [start |-> slots[i].start, end |-> slots[i].end, date |-> slots[i].start \div DayLen]]

(***************************************************************************)
(* The six dispatch handlers of ChatService.  Each returns the value or    *)
(* the exception of the handler together with the provider calls it made.  *)
(***************************************************************************)
GetEventTypes(args, w) ==
    LET e == CalComGetEventTypes(w)
    IN  IF e.raised # NoExc
        THEN Raised("AppException", "Error getting event types: " \o e.msg, e.calls)
        ELSE Returned([event_types |-> e.value, total |-> Len(e.value)], e.calls)

\* mutant: the secondary window starts on the requested date itself
AlternativeWindow_FromRequestedDate(date) ==
    [start |-> date * DayLen, end |-> (date + AlternativeWindowDays) * DayLen]

\* alternative_start and alternative_end (lines 398-399)
AlternativeWindow(date) ==
    [start |-> (date + 1) * DayLen,
     end |-> (date + 1 + AlternativeWindowDays) * DayLen]

\* lines 380-447 of _get_available_slots, once event_type_id is known
SlotsLookup(args, w, event_type_id, before) ==
    LET date == args.date
        primary == CalComGetAvailableSlots(w, event_type_id, date * DayLen,
                                           (date + PrimaryWindowDays) * DayLen)
        alternative == CalComGetAvailableSlots(w, event_type_id,
                           AlternativeWindow(date).start, AlternativeWindow(date).end)
        details == CalComGetEventTypes(w)
        fail(m, calls) == Raised("AppException", "Error getting available slots: " \o m, calls)
    IN  IF date = BadValue THEN fail("time data does not match format", before)
        ELSE IF primary.raised # NoExc THEN fail(primary.msg, before \o primary.calls)
        ELSE IF primary.value = <<>>
        THEN IF alternative.raised # NoExc
             THEN fail(alternative.msg, before \o primary.calls \o alternative.calls)
             ELSE IF details.raised # NoExc
             THEN fail(details.msg,
                       before \o primary.calls \o alternative.calls \o details.calls)
             ELSE Returned(
                    [slots |-> <<>>,
                     message |-> "No available slots found for "
                                 \o EventTypeName(details.value, event_type_id)
                                 \o " on " \o ToString(date) \o ".",
                     alternative_slots |-> SlotDicts(Take(alternative.value, AlternativeLimit)),
                     event_type_id |-> event_type_id,
                     event_type_name |-> EventTypeName(details.value, event_type_id)],
                    before \o primary.calls \o alternative.calls \o details.calls)
        ELSE IF details.raised # NoExc
        THEN fail(details.msg, before \o primary.calls \o details.calls)
        ELSE Returned(
               [slots |-> SlotDicts(primary.value),
                event_type_id |-> event_type_id,
                event_type_name |-> EventTypeName(details.value, event_type_id)],
               before \o primary.calls \o details.calls)

GetAvailableSlots(args, w) ==
    LET duration == IF args.duration = Absent THEN DefaultDuration ELSE args.duration
        e == CalComGetEventTypes(w)
    IN  IF args.date = Absent THEN Raised("ValidationError", "Date is required", <<>>)
        ELSE IF Omitted(args.event_type_id)
        THEN IF e.raised # NoExc THEN e
             ELSE IF e.value = <<>>
             THEN Raised("ValidationError", "No event types available", e.calls)
             ELSE SlotsLookup(args, w, SelectEventType(e.value, duration).id, e.calls)
        ELSE SlotsLookup(args, w, args.event_type_id, <<>>)

\* lines 488-536 of _book_event, once event_type_id is known
BookingRequest(args, w, event_type_id, before) ==
    LET b == CalComBookEvent(w, event_type_id, args.start_time, args.end_time,
                             args.name, args.email, "")
    IN  IF args.start_time = Absent
        THEN Raised("ValidationError", "Start time is required", before)
        ELSE IF args.end_time = Absent
        THEN Raised("ValidationError", "End time is required", before)
        ELSE IF args.name = "" THEN Raised("ValidationError", "Name is required", before)
        ELSE IF args.email = "" THEN Raised("ValidationError", "Email is required", before)
        ELSE IF args.start_time = BadValue \/ args.end_time = BadValue
        THEN Raised("AppException", "Error booking event: Invalid isoformat string", before)
        ELSE IF b.raised # NoExc
        THEN Raised("AppException", "Error booking event: " \o b.msg, before \o b.calls)
        ELSE Returned([booking_id |-> b.value.uid, title |-> b.value.title,
                       start_time |-> b.value.start_time, end_time |-> b.value.end_time,
                       status |-> b.value.status, attendees |-> b.value.attendees],
                      before \o b.calls)

BookEvent(args, w) ==
    LET timed == args.start_time # Absent /\ args.end_time # Absent
        duration_minutes == IF timed THEN args.end_time - args.start_time
                            ELSE DefaultDuration
        e == CalComGetEventTypes(w)
    IN  IF Omitted(args.event_type_id)
        THEN IF timed /\ (args.start_time = BadValue \/ args.end_time = BadValue)
             THEN Raised("ValueError", "Invalid isoformat string", <<>>)
             ELSE IF e.raised # NoExc THEN e
             ELSE IF e.value = <<>>
             THEN Raised("ValidationError", "No event types available", e.calls)
             ELSE BookingRequest(args, w, SelectEventType(e.value, duration_minutes).id,
                                 e.calls)
        ELSE BookingRequest(args, w, args.event_type_id, <<>>)

ListEvents(args, w) ==
    LET start_of_week == w.today - ((w.today \div DayLen) % 7) * DayLen
        end_of_week == ((start_of_week \div DayLen) + 6) * DayLen + (DayLen - 1)
        b == CalComGetBookings(w, args.email, start_of_week, end_of_week)
    IN  IF args.email = "" THEN Raised("ValidationError", "Email is required", <<>>)
        ELSE IF b.raised # NoExc
        THEN Raised("AppException", "Error listing events: " \o b.msg, b.calls)
        ELSE Returned([events |-> b.value, total |-> Len(b.value)], b.calls)

CancelEvent(args, w) ==
    LET c == CalComCancelBooking(w, args.booking_id)
    IN  IF args.booking_id = ""
        THEN Raised("ValidationError", "Booking ID is required", <<>>)
        ELSE IF c.raised # NoExc
        THEN Raised("AppException", "Error cancelling event: " \o c.msg, c.calls)
        ELSE Returned([success |-> TRUE, booking_id |-> args.booking_id,
                       status |-> "CANCELLED"], c.calls)

RescheduleEvent(args, w) ==
    LET r == CalComRescheduleBooking(w, args.booking_id, args.start_time, args.end_time)
    IN  IF args.booking_id = ""
        THEN Raised("ValidationError", "Booking ID is required", <<>>)
        ELSE IF args.start_time = Absent
        THEN Raised("ValidationError", "Start time is required", <<>>)
        ELSE IF args.end_time = Absent
        THEN Raised("ValidationError", "End time is required", <<>>)
        ELSE IF args.start_time = BadValue \/ args.end_time = BadValue
        THEN Raised("AppException", "Error rescheduling event: Invalid isoformat string", <<>>)
        ELSE IF r.raised # NoExc
        THEN Raised("AppException", "Error rescheduling event: " \o r.msg, r.calls)
        ELSE Returned([success |-> TRUE, booking_id |-> r.value.uid, title |-> r.value.title,
                       start_time |-> r.value.start_time, end_time |-> r.value.end_time,
                       status |-> r.value.status], r.calls)

\* the if/elif chain of _process_function_calls (lines 311-324)
Invoke(name, args, w) ==
    CASE name = "get_event_types" -> GetEventTypes(args, w)
      [] name = "get_available_slots" -> GetAvailableSlots(args, w)
      [] name = "book_event" -> BookEvent(args, w)
      [] name = "list_events" -> ListEvents(args, w)
      [] name = "cancel_event" -> CancelEvent(args, w)
      [] name = "reschedule_event" -> RescheduleEvent(args, w)
      [] OTHER -> Raised("ValidationError", "Unknown function: " \o name, <<>>)

(***************************************************************************)
(* Inputs: the provider worlds and the tool calls the model may issue.     *)
(***************************************************************************)
EventTypePool ==
    { [id |-> 1, title |-> "Quick chat", length |-> 15],
      [id |-> 2, title |-> "Consultation", length |-> 45],
      [id |-> 3, title |-> "Standard meeting", length |-> 30],
      [id |-> 4, title |-> "Workshop", length |-> 60] }

EventTypeLists ==
    { l \in UNION { [1..n -> EventTypePool] : n \in 0..MaxEts } :
        \A i, j \in DOMAIN l : l[i] = l[j] => i = j }

RequestedDay == 10

SlotLists ==
    { <<>>,
      << RequestedDay * DayLen + 870, RequestedDay * DayLen + 540 >>,
      << (RequestedDay + 2) * DayLen + 600 >>,
      [i \in 1..MaxAlt |-> (RequestedDay + 8) * DayLen + 30 * (MaxAlt - i)],
      << (RequestedDay + 10) * DayLen + 600, (RequestedDay + 9) * DayLen + 600 >>,
      << (RequestedDay + 15) * DayLen, (RequestedDay + 14) * DayLen + 1410,
         (RequestedDay + 7) * DayLen >> }

BaseWorld ==
    [ets |-> << [id |-> 3, title |-> "Standard meeting", length |-> 30],
                [id |-> 2, title |-> "Consultation", length |-> 45] >>,
     etsFail |-> FALSE,
     slots |-> << RequestedDay * DayLen + 870, RequestedDay * DayLen + 540 >>,
     slotsFail |-> FALSE,
     book |-> << "ok", "ok" >>,
     uid |-> "bk-1",
     bookings |-> << [uid |-> "bk-1", title |-> "Appointment with Jane Doe",
                      start_time |-> RequestedDay * DayLen + 870,
                      end_time |-> RequestedDay * DayLen + 900,
                      status |-> "ACCEPTED", eventTypeId |-> 3,
                      attendees |-> << [email |-> "jane@example.com",
                                        name |-> "Jane Doe"] >>],
                     [uid |-> "bk-2", title |-> "Appointment with Bob",
                      start_time |-> RequestedDay * DayLen + 600,
                      end_time |-> RequestedDay * DayLen + 630,
                      status |-> "PENDING", eventTypeId |-> 2,
                      attendees |-> << [email |-> "bob@example.com",
                                        name |-> "Bob"] >>] >>,
     bookingsFail |-> FALSE,
     detailFail |-> {},
     slotLength |-> 20,
     cancelFail |-> FALSE,
     rescheduleFail |-> FALSE,
     today |-> RequestedDay * DayLen + 615]

DownWorld ==
    [BaseWorld EXCEPT !.etsFail = TRUE, !.slotsFail = TRUE, !.bookingsFail = TRUE,
                      !.cancelFail = TRUE, !.rescheduleFail = TRUE,
                      !.book = << "error", "error" >>]

SlotWorlds ==
    { [BaseWorld EXCEPT !.ets = e, !.etsFail = ef, !.slots = s, !.slotsFail = sf] :
        e \in EventTypeLists, ef \in BOOLEAN, s \in SlotLists, sf \in BOOLEAN }

BookOutcomes ==
    { << "ok", "ok" >>, << "no_available_users_found_error", "ok" >>,
      << "no_available_users_found_error", "error" >>, << "error", "error" >>,
      << "conflict", "ok" >>, << "timeout", "ok" >>,
      << "no_available_users_found_error", "conflict" >> }

BookWorlds ==
    { [BaseWorld EXCEPT !.ets = e, !.etsFail = ef, !.book = b] :
        e \in EventTypeLists, ef \in BOOLEAN, b \in BookOutcomes }

NoArgs ==
    [date |-> Absent, event_type_id |-> Absent, duration |-> Absent,
     start_time |-> Absent, end_time |-> Absent, name |-> "", email |-> "",
     booking_id |-> "", start_date |-> Absent, end_date |-> Absent]

ToolCall(name, args) == [name |-> name, arguments |-> args]

SlotTime == RequestedDay * DayLen + 870

SlotCalls ==
    { ToolCall("get_available_slots",
               [NoArgs EXCEPT !.date = d, !.event_type_id = e, !.duration = n]) :
        d \in {Absent, BadValue, RequestedDay}, e \in {Absent, 2, 9},
        n \in {Absent, 20, 30, 50} }

BookCalls ==
    { ToolCall("book_event",
               [NoArgs EXCEPT !.event_type_id = e, !.start_time = s, !.end_time = t,
                              !.name = n, !.email = m]) :
        e \in {Absent, 2}, s \in {Absent, BadValue, SlotTime},
        t \in {Absent, SlotTime + 30, SlotTime + 50},
        n \in {"", "Jane Doe"}, m \in {"", "jane@example.com"} }

OtherCalls ==
    { ToolCall("get_event_types", NoArgs), ToolCall("send_email", NoArgs) }
    \cup { ToolCall("list_events", [NoArgs EXCEPT !.email = m]) :
             m \in {"", "jane@example.com", "JANE@EXAMPLE.COM", "bob@example.com"} }
    \cup { ToolCall("list_events",
                    [NoArgs EXCEPT !.email = "jane@example.com",
                                   !.start_date = s, !.end_date = t]) :
             s \in {Absent, RequestedDay + 30}, t \in {Absent, RequestedDay + 37} }
    \cup { ToolCall("cancel_event", [NoArgs EXCEPT !.booking_id = b]) :
             b \in {"", "bk-1", "bk-9"} }
    \cup { ToolCall("reschedule_event",
                    [NoArgs EXCEPT !.booking_id = b, !.start_time = s, !.end_time = t]) :
             b \in {"", "bk-1"}, s \in {Absent, BadValue, SlotTime},
             t \in {Absent, SlotTime + 30} }

HandlerInputs ==
    (SlotCalls \X SlotWorlds) \cup (BookCalls \X BookWorlds)
    \cup (OtherCalls \X {BaseWorld, DownWorld})

\* the tool calls and worlds of the orchestration runs
ModelCalls ==
    { ToolCall("get_event_types", NoArgs),
      ToolCall("send_email", NoArgs) }

ModelWorlds == {BaseWorld, DownWorld}

FunctionCallLists == UNION { [1..n -> ModelCalls] : n \in 0..MaxCalls }

Messages == {"Hello"}

AssistantContents == {"", "Sure."}

SessionArgs == {NoSession, "test_session"}

Pending ==
    [raised |-> "pending", msg |-> "", value |-> <<>>, calls |-> <<>>,
     status_code |-> 0, details |-> <<>>]

\* the messages, tool calls and provider worlds of the auto-booking runs
BookingMessages ==
    { "Book an appointment for Jane Doe (jane@example.com) on March 14th at 2:30pm",
      "What times are open March 14th?",
      "What times are open for Jane Doe (jane@example.com) on March 14th at 2:30pm?",
      "Schedule a call for Bob (bob@example.com) on March 12th at 9:00",
      "Book a slot (jane@example.com) on March 14th at 2:30pm",
      "RESERVE time for Ann (ann@example.com) tomorrow",
      "Please set up a meeting for Bob (bob@example.com) on March 12th at 3:15pm" }

AutoBookCalls ==
    { ToolCall("get_available_slots", [NoArgs EXCEPT !.date = 14]),
      ToolCall("get_available_slots", [NoArgs EXCEPT !.date = 12]),
      ToolCall("get_event_types", NoArgs),
      ToolCall("book_event",
               [NoArgs EXCEPT !.event_type_id = 3, !.start_time = 14 * DayLen + 870,
                              !.end_time = 14 * DayLen + 900, !.name = "Jane Doe",
                              !.email = "jane@example.com"]) }

AutoBookCallLists == UNION { [1..n -> AutoBookCalls] : n \in 0..MaxCalls }

AutoBookSlotLists ==
    { << 13 * DayLen + 870, 14 * DayLen + 540, 14 * DayLen + 870, 12 * DayLen + 600 >>,
      << 14 * DayLen + 540, 14 * DayLen + 600, 12 * DayLen + 915 >>,
      << 15 * DayLen + 870, 16 * DayLen + 540 >>,
      << >> }

AutoBookWorlds ==
    { [BaseWorld EXCEPT !.slots = l] : l \in AutoBookSlotLists } \cup {DownWorld}

CallListsFor(message) ==
    IF message \in BookingMessages THEN AutoBookCallLists ELSE FunctionCallLists

WorldsFor(message) ==
    IF message \in BookingMessages THEN AutoBookWorlds ELSE ModelWorlds

\* a time of day "HH:MM"; NoTime is a missing (null) one
TimeOfDay(hour, minute) == [hour |-> hour, minute |-> minute]

NoTime == TimeOfDay(Absent, Absent)

\* what parse_date_with_llm returns: None (given = FALSE), or the arguments
\* of the extract_datetime call: date, start_time, and whether start_time is
\* a JSON string (the schema asks for one, the provider may send a number)
DateInfo(given, date, start_time, start_text) ==
    [given |-> given, date |-> date, start_time |-> start_time,
     start_text |-> start_text]

NoDateInfo == DateInfo(FALSE, Absent, NoTime, TRUE)

DateInfos ==
    { NoDateInfo,
      DateInfo(TRUE, 14, TimeOfDay(14, 30), TRUE),
      DateInfo(TRUE, 12, TimeOfDay(9, 0), TRUE),
      DateInfo(TRUE, 12, TimeOfDay(15, 15), TRUE),
      DateInfo(TRUE, 14, NoTime, TRUE),
      DateInfo(TRUE, 15, TimeOfDay(10, 0), TRUE),
      DateInfo(TRUE, 14, TimeOfDay(14, 30), FALSE) }

(***************************************************************************)
(* Text.  A Python str is used here both as a whole (a TLA+ string) and    *)
(* character by character (substring tests and regular expressions of      *)
(* send_message).  Chars gives the characters of the strings the model     *)
(* uses, Join puts characters together again.                              *)
(***************************************************************************)
Chars(s) ==
    CASE s = "Hello" ->
           <<"H", "e", "l", "l", "o">>
      [] s = "Book an appointment for Jane Doe (jane@example.com) on March 14th at 2:30pm" ->
           <<"B", "o", "o", "k", " ", "a", "n", " ", "a", "p", "p", "o",
             "i", "n", "t", "m", "e", "n", "t", " ", "f", "o", "r", " ",
             "J", "a", "n", "e", " ", "D", "o", "e", " ", "(", "j", "a",
             "n", "e", "@", "e", "x", "a", "m", "p", "l", "e", ".", "c",
             "o", "m", ")", " ", "o", "n", " ", "M", "a", "r", "c", "h",
             " ", "1", "4", "t", "h", " ", "a", "t", " ", "2", ":", "3",
             "0", "p", "m">>
      [] s = "What times are open March 14th?" ->
           <<"W", "h", "a", "t", " ", "t", "i", "m", "e", "s", " ", "a",
             "r", "e", " ", "o", "p", "e", "n", " ", "M", "a", "r", "c",
             "h", " ", "1", "4", "t", "h", "?">>
      [] s = "What times are open for Jane Doe (jane@example.com) on March 14th at 2:30pm?" ->
           <<"W", "h", "a", "t", " ", "t", "i", "m", "e", "s", " ", "a",
             "r", "e", " ", "o", "p", "e", "n", " ", "f", "o", "r", " ",
             "J", "a", "n", "e", " ", "D", "o", "e", " ", "(", "j", "a",
             "n", "e", "@", "e", "x", "a", "m", "p", "l", "e", ".", "c",
             "o", "m", ")", " ", "o", "n", " ", "M", "a", "r", "c", "h",
             " ", "1", "4", "t", "h", " ", "a", "t", " ", "2", ":", "3",
             "0", "p", "m", "?">>
      [] s = "Schedule a call for Bob (bob@example.com) on March 12th at 9:00" ->
           <<"S", "c", "h", "e", "d", "u", "l", "e", " ", "a", " ", "c",
             "a", "l", "l", " ", "f", "o", "r", " ", "B", "o", "b", " ",
             "(", "b", "o", "b", "@", "e", "x", "a", "m", "p", "l", "e",
             ".", "c", "o", "m", ")", " ", "o", "n", " ", "M", "a", "r",
             "c", "h", " ", "1", "2", "t", "h", " ", "a", "t", " ", "9",
             ":", "0", "0">>
      [] s = "Book a slot (jane@example.com) on March 14th at 2:30pm" ->
           <<"B", "o", "o", "k", " ", "a", " ", "s", "l", "o", "t", " ",
             "(", "j", "a", "n", "e", "@", "e", "x", "a", "m", "p", "l",
             "e", ".", "c", "o", "m", ")", " ", "o", "n", " ", "M", "a",
             "r", "c", "h", " ", "1", "4", "t", "h", " ", "a", "t", " ",
             "2", ":", "3", "0", "p", "m">>
      [] s = "RESERVE time for Ann (ann@example.com) tomorrow" ->
           <<"R", "E", "S", "E", "R", "V", "E", " ", "t", "i", "m", "e",
             " ", "f", "o", "r", " ", "A", "n", "n", " ", "(", "a", "n",
             "n", "@", "e", "x", "a", "m", "p", "l", "e", ".", "c", "o",
             "m", ")", " ", "t", "o", "m", "o", "r", "r", "o", "w">>
      [] s = "Please set up a meeting for Bob (bob@example.com) on March 12th at 3:15pm" ->
           <<"P", "l", "e", "a", "s", "e", " ", "s", "e", "t", " ", "u",
             "p", " ", "a", " ", "m", "e", "e", "t", "i", "n", "g", " ",
             "f", "o", "r", " ", "B", "o", "b", " ", "(", "b", "o", "b",
             "@", "e", "x", "a", "m", "p", "l", "e", ".", "c", "o", "m",
             ")", " ", "o", "n", " ", "M", "a", "r", "c", "h", " ", "1",
             "2", "t", "h", " ", "a", "t", " ", "3", ":", "1", "5", "p",
             "m">>
      [] s = "book" ->
           <<"b", "o", "o", "k">>
      [] s = "schedule" ->
           <<"s", "c", "h", "e", "d", "u", "l", "e">>
      [] s = "appointment" ->
           <<"a", "p", "p", "o", "i", "n", "t", "m", "e", "n", "t">>
      [] s = "meeting" ->
           <<"m", "e", "e", "t", "i", "n", "g">>
      [] s = "reserve" ->
           <<"r", "e", "s", "e", "r", "v", "e">>
      [] s = "for" ->
           <<"f", "o", "r">>
      [] s = "pm" ->
           <<"p", "m">>
      [] s = "March 14th" ->
           <<"M", "a", "r", "c", "h", " ", "1", "4", "t", "h">>
      [] s = "2:30" ->
           <<"2", ":", "3", "0">>
      [] s = "January" ->
           <<"J", "a", "n", "u", "a", "r", "y">>
      [] s = "February" ->
           <<"F", "e", "b", "r", "u", "a", "r", "y">>
      [] s = "March" ->
           <<"M", "a", "r", "c", "h">>
      [] s = "April" ->
           <<"A", "p", "r", "i", "l">>
      [] s = "May" ->
           <<"M", "a", "y">>
      [] s = "June" ->
           <<"J", "u", "n", "e">>
      [] s = "July" ->
           <<"J", "u", "l", "y">>
      [] s = "August" ->
           <<"A", "u", "g", "u", "s", "t">>
      [] s = "September" ->
           <<"S", "e", "p", "t", "e", "m", "b", "e", "r">>
      [] s = "October" ->
           <<"O", "c", "t", "o", "b", "e", "r">>
      [] s = "November" ->
           <<"N", "o", "v", "e", "m", "b", "e", "r">>
      [] s = "December" ->
           <<"D", "e", "c", "e", "m", "b", "e", "r">>

RECURSIVE Join(_)
Join(cs) == IF cs = <<>> THEN "" ELSE Head(cs) \o Join(Tail(cs))

UpperLetters ==
    <<"A", "B", "C", "D", "E", "F", "G", "H", "I", "J", "K", "L", "M",
      "N", "O", "P", "Q", "R", "S", "T", "U", "V", "W", "X", "Y", "Z">>

LowerLetters ==
    <<"a", "b", "c", "d", "e", "f", "g", "h", "i", "j", "k", "l", "m",
      "n", "o", "p", "q", "r", "s", "t", "u", "v", "w", "x", "y", "z">>

DigitChars == <<"0", "1", "2", "3", "4", "5", "6", "7", "8", "9">>

Range(s) == {s[i] : i \in DOMAIN s}

Digits == Range(DigitChars)

Alnum == Range(UpperLetters) \cup Range(LowerLetters) \cup Digits

Whitespace == {" ", "\t", "\n"}

\* str.lower
LowerChar(c) ==
    IF c \in Range(UpperLetters)
    THEN LowerLetters[CHOOSE i \in DOMAIN UpperLetters : UpperLetters[i] = c]
    ELSE c

LowerText(cs) == [i \in DOMAIN cs |-> LowerChar(cs[i])]

\* pat occurs in cs at position p
OccursAt(cs, pat, p) ==
    IF p + Len(pat) - 1 > Len(cs) THEN FALSE
    ELSE SubSeq(cs, p, p + Len(pat) - 1) = pat

\* pat in cs
Contains(cs, pat) == \E p \in 1..Len(cs) : OccursAt(cs, pat, p)

\* the first position at or after p whose character is not in class
RECURSIVE RunEnd(_, _, _)
RunEnd(cs, p, class) ==
    IF p > Len(cs) THEN p
    ELSE IF cs[p] \in class THEN RunEnd(cs, p + 1, class)
    ELSE p

\* the first position at or after p whose character is stop
RECURSIVE RunEndUntil(_, _, _)
RunEndUntil(cs, p, stop) ==
    IF p > Len(cs) THEN p
    ELSE IF cs[p] # stop THEN RunEndUntil(cs, p + 1, stop)
    ELSE p

\* str.strip
RECURSIVE Strip(_)
Strip(cs) ==
    IF cs = <<>> THEN <<>>
    ELSE IF Head(cs) \in Whitespace THEN Strip(Tail(cs))
    ELSE IF cs[Len(cs)] \in Whitespace THEN Strip(SubSeq(cs, 1, Len(cs) - 1))
    ELSE cs

\* int() of a run of digits
RECURSIVE ParseInt(_)
ParseInt(cs) ==
    IF cs = <<>> THEN 0
    ELSE LET last == cs[Len(cs)]
         IN  ParseInt(SubSeq(cs, 1, Len(cs) - 1)) * 10
             + (CHOOSE i \in DOMAIN DigitChars : DigitChars[i] = last) - 1

\* f"{n:02d}"
Pad2(n) == IF n < 10 THEN "0" \o ToString(n) ELSE ToString(n)

\* re.search(r'for\s+([^(]+)', message): the span of group 1 of a match
\* that starts at p, <<>> if there is none.  \s+ takes the whole run of
\* whitespace and gives one character back when a "(" or the end follows.
NameGroupAt(cs, p) ==
    LET w == RunEnd(cs, p + 3, Whitespace)
        g == IF w > Len(cs) THEN w - 1
             ELSE IF cs[w] = "(" THEN w - 1
             ELSE w
    IN  IF OccursAt(cs, Chars("for"), p) /\ g > p + 3
        THEN <<g, RunEndUntil(cs, g, "(") - 1>>
        ELSE <<>>

NameMatch(cs) ==
    LET at == {p \in 1..Len(cs) : NameGroupAt(cs, p) # <<>>}
    IN  IF at = {} THEN [found |-> FALSE, group |-> <<>>]
        ELSE [found |-> TRUE,
              group |-> SubSeq(cs, NameGroupAt(cs, Min(at))[1],
                               NameGroupAt(cs, Min(at))[2])]

LocalChars == Alnum \cup {"_", ".", "+", "-"}

DomainChars == Alnum \cup {"-"}

TailChars == Alnum \cup {"-", "."}

\* re.search(r'([a-zA-Z0-9_.+-]+@[a-zA-Z0-9-]+\.[a-zA-Z0-9-.]+)', message):
\* the position after a match that starts at p, 0 if there is none
EmailEndAt(cs, p) ==
    LET a == RunEnd(cs, p, LocalChars)
        d == RunEnd(cs, a + 1, DomainChars)
        t == RunEnd(cs, d + 1, TailChars)
    IN  IF a = p \/ a > Len(cs) THEN 0
        ELSE IF cs[a] # "@" THEN 0
        ELSE IF d = a + 1 \/ d > Len(cs) THEN 0
        ELSE IF cs[d] # "." THEN 0
        ELSE IF t = d + 1 THEN 0
        ELSE t

EmailMatch(cs) ==
    LET at == {p \in 1..Len(cs) : EmailEndAt(cs, p) # 0}
    IN  IF at = {} THEN [found |-> FALSE, group |-> <<>>]
        ELSE [found |-> TRUE,
              group |-> SubSeq(cs, Min(at), EmailEndAt(cs, Min(at)) - 1)]

\* list(calendar.month_name)[1:]
month_names ==
    <<"January", "February", "March", "April", "May", "June", "July",
      "August", "September", "October", "November", "December">>

\* the month-name + day-number pattern of line 137: the day digits of a
\* match of month k that starts at p, <<>> if there is none
DayDigitsAt(cs, p, k) ==
    LET name == Chars(month_names[k])
        w == RunEnd(cs, p + Len(name), Whitespace)
        e == RunEnd(cs, w, Digits)
    IN  IF OccursAt(cs, name, p) /\ w > p + Len(name) /\ e > w
        THEN SubSeq(cs, w, e - 1)
        ELSE <<>>

DateMatch(cs) ==
    LET at == {p \in 1..Len(cs) :
                  \E k \in DOMAIN month_names : DayDigitsAt(cs, p, k) # <<>>}
        k == CHOOSE k \in DOMAIN month_names : DayDigitsAt(cs, Min(at), k) # <<>>
    IN  IF at = {} THEN [found |-> FALSE, month |-> 0, day |-> 0]
        ELSE [found |-> TRUE, month |-> k,
              day |-> ParseInt(DayDigitsAt(cs, Min(at), k))]

\* re.search(r'(\d+):(\d+)', message): the positions <<colon, end>> of a
\* match that starts at p, <<>> if there is none
TimeSpanAt(cs, p) ==
    LET e == RunEnd(cs, p, Digits)
        f == RunEnd(cs, e + 1, Digits)
    IN  IF e = p \/ e > Len(cs) THEN <<>>
        ELSE IF cs[e] # ":" THEN <<>>
        ELSE IF f = e + 1 THEN <<>>
        ELSE <<e, f>>

TimeMatch(cs) ==
    LET at == {p \in 1..Len(cs) : TimeSpanAt(cs, p) # <<>>}
        span == TimeSpanAt(cs, Min(at))
    IN  IF at = {} THEN [found |-> FALSE, hour |-> 0, minute |-> 0]
        ELSE [found |-> TRUE,
              hour |-> ParseInt(SubSeq(cs, Min(at), span[1] - 1)),
              minute |-> ParseInt(SubSeq(cs, span[1] + 1, span[2] - 1))]

(***************************************************************************)
(* State.                                                                  *)
(*   sessions[svc]  the sessions dict of ChatService svc: session id ->    *)
(*                  history (sequence of turns).  Service 0 is a service   *)
(*                  whose process_message is called directly; service r    *)
(*                  is the one get_chat_service builds for request r.      *)
(*   req[r]         the position and locals of request r                   *)
(*   uuids          how many session ids uuid4 has generated               *)
(*   hcall, hworld, hout   one handler invocation: tool call, provider     *)
(*                  world, and the handler's outcome                       *)
(* A turn carries, besides role/content/name, the request it stems from    *)
(* (origin), and a request records which requests had returned when it     *)
(* arrived (preceded), which tool calls raised (raised), the provider      *)
(* calls of each (provider) and the result of each (results): bookkeeping  *)
(* that no operation reads.                                                *)
(***************************************************************************)
SharedService == 0

EmptyMap == <<>>

Turn(role, content, name, origin) ==
    [role |-> role, content |-> content, name |-> name, origin |-> origin]

SystemTurn == Turn("system", "system_prompt", "", 0)

Uuid(n) == "uuid-" \o ToString(n)

IdleRequest ==
    [pc |-> "idle", via |-> "", svc |-> SharedService, session_arg |-> NoSession,
     session_id |-> NoSession, message |-> "", sent |-> <<>>, content |-> "",
     function_calls |-> <<>>, done |-> 0, function_results |-> EmptyMap,
     raised |-> <<>>, provider |-> <<>>, results |-> <<>>, error |-> NoExc,
     preceded |-> {}, response |-> <<>>,
     triggered |-> FALSE, name |-> "", email |-> "", event_type_id |-> Absent,
     date_query |-> <<>>, date_info |-> NoDateInfo,
     target_date |-> Absent, target_time |-> NoTime, target_slot |-> <<>>,
     booking |-> <<>>, booking_calls |-> <<>>,
     cause |-> NoException, exc |-> NoException]

\* mutant: the system message is added on every call, not only on creation
GetOrCreateSession_Reseed(dict, session_arg, fresh) ==
    LET session_id == IF session_arg = NoSession THEN fresh ELSE session_arg
    IN  [session_id |-> session_id,
         sessions |-> [k \in DOMAIN dict \cup {session_id} |->
                          IF k # session_id THEN dict[k]
                          ELSE IF k \in DOMAIN dict THEN Append(dict[k], SystemTurn)
                          ELSE <<SystemTurn>>]]

\* mutant: a history is created on every call, replacing the one the id has
GetOrCreateSession_Replace(dict, session_arg, fresh) ==
    LET session_id == IF session_arg = NoSession THEN fresh ELSE session_arg
    IN  [session_id |-> session_id,
         sessions |-> [k \in DOMAIN dict \cup {session_id} |->
                          IF k = session_id THEN <<SystemTurn>> ELSE dict[k]]]

\* ChatService._get_or_create_session on the sessions dict of one service
GetOrCreateSession(dict, session_arg, fresh) ==
    LET session_id == IF session_arg = NoSession THEN fresh ELSE session_arg
    IN  [session_id |-> session_id,
         sessions |-> IF session_id \in DOMAIN dict THEN dict
                      ELSE [k \in DOMAIN dict \cup {session_id} |->
                               IF k = session_id THEN <<SystemTurn>> ELSE dict[k]]]

\* mutant: the message is inserted at the front of the history
AddMessage_Prepend(dict, session_id, turn) ==
    [dict EXCEPT ![session_id] = <<turn>> \o @]

\* mutant: the append writes back a copy of the history that holds only the
\* turns of the appending message (the turns of other messages are lost)
AddMessage_LostUpdate(dict, session_id, turn) ==
    [dict EXCEPT ![session_id] =
        Append(SelectSeq(@, LAMBDA t : t.origin \in {0, turn.origin}), turn)]

\* ChatHistory.add_message on the history of session_id
AddMessage(dict, session_id, turn) ==
    [dict EXCEPT ![session_id] = Append(@, turn)]

TypeOK ==
    /\ uuids \in 0..MaxReq
    /\ SharedService \in DOMAIN sessions
    /\ DOMAIN sessions \subseteq 0..MaxReq
    /\ \A r \in Requests :
         req[r].pc \in {"idle", "completion", "dispatch", "returned", "extracting",
                        "booking", "responded", "failed"}

Init ==
    /\ sessions = [svc \in {SharedService} |-> EmptyMap]
    /\ req = [r \in Requests |-> IdleRequest]
    /\ uuids = 0
    /\ hcall = ToolCall("get_event_types", NoArgs)
    /\ hworld = BaseWorld
    /\ hout = Pending

\* mutant: the history is handed to the completion provider before the user
\* turn is appended
StartMessage_ModelFirst(r, via, svc, dict, session_arg, message) ==
    LET got == GetOrCreateSession(dict, session_arg, Uuid(uuids + 1))
        after == AddMessage(got.sessions, got.session_id,
                            Turn("user", message, "", r))
    IN  /\ req[r].pc = "idle"
        /\ IF r = 1 THEN TRUE ELSE req[r - 1].pc # "idle"
        /\ uuids' = IF session_arg = NoSession THEN uuids + 1 ELSE uuids
        /\ sessions' = [k \in DOMAIN sessions \cup {svc} |->
                           IF k = svc THEN after ELSE sessions[k]]
        /\ req' = [req EXCEPT ![r] =
                     [@ EXCEPT !.pc = "completion", !.via = via, !.svc = svc,
                               !.session_arg = session_arg,
                               !.session_id = got.session_id,
                               !.message = message,
                               !.preceded = {q \in Requests :
                                               req[q].pc \in {"returned", "responded"}},
                               !.sent = got.sessions[got.session_id]]]
        /\ UNCHANGED <<hcall, hworld, hout>>

\* mutant: the completion provider is handed the turns of this message only
StartMessage_OwnTurns(r, via, svc, dict, session_arg, message) ==
    LET got == GetOrCreateSession(dict, session_arg, Uuid(uuids + 1))
        after == AddMessage(got.sessions, got.session_id,
                            Turn("user", message, "", r))
    IN  /\ req[r].pc = "idle"
        /\ IF r = 1 THEN TRUE ELSE req[r - 1].pc # "idle"
        /\ uuids' = IF session_arg = NoSession THEN uuids + 1 ELSE uuids
        /\ sessions' = [k \in DOMAIN sessions \cup {svc} |->
                           IF k = svc THEN after ELSE sessions[k]]
        /\ req' = [req EXCEPT ![r] =
                     [@ EXCEPT !.pc = "completion", !.via = via, !.svc = svc,
                               !.session_arg = session_arg,
                               !.session_id = got.session_id,
                               !.message = message,
                               !.preceded = {q \in Requests :
                                               req[q].pc \in {"returned", "responded"}},
                               !.sent = <<SystemTurn, Turn("user", message, "", r)>>]]
        /\ UNCHANGED <<hcall, hworld, hout>>

\* process_message, lines 239-252: resolve the session, append the user
\* turn, hand the history to the completion provider.  Request r is the
\* r-th message to arrive.
StartMessage(r, via, svc, dict, session_arg, message) ==
    LET got == GetOrCreateSession(dict, session_arg, Uuid(uuids + 1))
        after == AddMessage(got.sessions, got.session_id,
                            Turn("user", message, "", r))
    IN  /\ req[r].pc = "idle"
        /\ IF r = 1 THEN TRUE ELSE req[r - 1].pc # "idle"
        /\ uuids' = IF session_arg = NoSession THEN uuids + 1 ELSE uuids
        /\ sessions' = [k \in DOMAIN sessions \cup {svc} |->
                           IF k = svc THEN after ELSE sessions[k]]
        /\ req' = [req EXCEPT ![r] =
                     [@ EXCEPT !.pc = "completion", !.via = via, !.svc = svc,
                               !.session_arg = session_arg,
                               !.session_id = got.session_id,
                               !.message = message,
                               !.preceded = {q \in Requests :
                                               req[q].pc \in {"returned", "responded"}},
                               !.sent = after[got.session_id]]]
        /\ UNCHANGED <<hcall, hworld, hout>>

\* a direct call of process_message on the shared ChatService
ProcessMessage(r) ==
    \E session_arg \in SessionArgs, message \in Messages :
        StartMessage(r, "direct", SharedService, sessions[SharedService],
                     session_arg, message)

\* POST /chat/message: get_chat_service builds a new ChatService for the
\* request, then process_message runs on it
SendMessage(r) ==
    \E session_arg \in SessionArgs, message \in Messages :
        StartMessage(r, "endpoint", r, EmptyMap, session_arg, message)

\* the exception of chat_completion (openai.py, lines 86-91)
CompletionError ==
    Exc("OpenAIAPIError", "OpenAI API error: Connection error.", 500,
        [error |-> "Connection error."])

\* mutant: the text of the original exception is dropped
Reraise_Opaque(e) ==
    IF e.cls \in {"ValidationError", "OpenAIAPIError"} THEN e
    ELSE Exc("AppException", "Error processing message", 500, <<>>)

\* send_message, lines 236-244: the exception that leaves the endpoint
Reraise(e) ==
    IF e.cls \in {"ValidationError", "OpenAIAPIError"} THEN e
    ELSE Exc("AppException", "Error processing message: " \o e.message, 500, <<>>)

\* exc.__class__.__name__.lower()
ErrorCode(cls) ==
    CASE cls = "AppException" -> "appexception"
      [] cls = "ValidationError" -> "validationerror"
      [] cls = "NotFoundError" -> "notfounderror"
      [] cls = "CalComAPIError" -> "calcomapierror"
      [] cls = "OpenAIAPIError" -> "openaiapierror"
      [] OTHER -> "internal_error"

\* app_exception_handler and format_error_response (utils/error.py): the
\* JSON body and the HTTP status of the answer to a request that raised e
FormatErrorResponse(e) ==
    [status_code |-> e.status_code,
     error |-> IF e.details # <<>>
               THEN [code |-> ErrorCode(e.cls), message |-> e.message,
                     status_code |-> e.status_code, details |-> e.details]
               ELSE [code |-> ErrorCode(e.cls), message |-> e.message,
                     status_code |-> e.status_code]]

\* what a ChatService put in place of the endpoint's dependency raises from
\* process_message (test_send_message_error: Exception("Test error"))
InjectedErrors ==
    { Exc("Exception", "Test error", 0, <<>>),
      Exc("ValidationError", "Validation error", 400, <<>>),
      Exc("ValidationError", "Message is required", 400, [field |-> "message"]) }

\* POST /chat/message on a chat service whose process_message raises
SendMessageRaises(r) ==
    \E session_arg \in SessionArgs, message \in Messages, e \in InjectedErrors :
        /\ req[r].pc = "idle"
        /\ IF r = 1 THEN TRUE ELSE req[r - 1].pc # "idle"
        /\ req' = [req EXCEPT ![r] =
                     [@ EXCEPT !.pc = "failed", !.via = "endpoint", !.svc = r,
                               !.session_arg = session_arg, !.message = message,
                               !.error = Reraise(e).cls,
                               !.cause = e, !.exc = Reraise(e)]]
        /\ UNCHANGED <<sessions, uuids, hcall, hworld, hout>>

\* tool calls issued so far by all completions of the run
RECURSIVE Issued(_)
Issued(n) == IF n = 0 THEN 0 ELSE Len(req[n].function_calls) + Issued(n - 1)

\* process_message, lines 254-274, when the completion has no tool call,
\* and the entry into _process_function_calls when it has
CompletionReturns(r) ==
    \E function_calls \in CallListsFor(req[r].message) :
      \E content \in IF function_calls = <<>> THEN AssistantContents ELSE {""} :
        /\ req[r].pc = "completion"
        /\ Len(function_calls) + Issued(MaxReq) <= MaxCalls
        /\ sessions' = [sessions EXCEPT ![req[r].svc] =
                          AddMessage(@, req[r].session_id,
                                     Turn("assistant", content, "", r))]
        /\ req' = [req EXCEPT ![r] =
                     [@ EXCEPT !.pc = IF function_calls = <<>> THEN "returned"
                                      ELSE "dispatch",
                               !.content = content,
                               !.function_calls = function_calls]]
        /\ UNCHANGED <<uuids, hcall, hworld, hout>>

\* mutant: the user turn of the failed message is taken back
CompletionFails_Rollback(r) ==
    /\ req[r].pc = "completion"
    /\ req' = [req EXCEPT ![r] =
                 [@ EXCEPT !.pc = "failed", !.error = "OpenAIAPIError",
                           !.cause = CompletionError,
                           !.exc = IF req[r].via = "endpoint"
                                   THEN Reraise(CompletionError)
                                   ELSE CompletionError]]
    /\ sessions' = [sessions EXCEPT ![req[r].svc] =
                      [@ EXCEPT ![req[r].session_id] =
                          SelectSeq(@, LAMBDA t : t.origin # r)]]
    /\ UNCHANGED <<uuids, hcall, hworld, hout>>

\* chat_completion raises OpenAIAPIError (openai.py, lines 86-91)
CompletionFails(r) ==
    /\ req[r].pc = "completion"
    /\ req' = [req EXCEPT ![r] =
                 [@ EXCEPT !.pc = "failed", !.error = "OpenAIAPIError",
                           !.cause = CompletionError,
                           !.exc = IF req[r].via = "endpoint"
                                   THEN Reraise(CompletionError)
                                   ELSE CompletionError]]
    /\ UNCHANGED <<sessions, uuids, hcall, hworld, hout>>

\* one iteration of the loop of _process_function_calls (lines 306-348)
DispatchResult(out) ==
    IF out.raised = NoExc THEN out.value ELSE [error |-> out.msg]

\* mutant: the error turn does not carry the function name
DispatchTurn_NoName(name, out, origin) ==
    IF out.raised = NoExc THEN Turn("function", ToString(out.value), name, origin)
    ELSE Turn("function", "Error: " \o out.msg, "", origin)

DispatchTurn(name, out, origin) ==
    IF out.raised = NoExc THEN Turn("function", ToString(out.value), name, origin)
    ELSE Turn("function", "Error: " \o out.msg, name, origin)

SetResult(results, name, result) ==
    [k \in DOMAIN results \cup {name} |-> IF k = name THEN result ELSE results[k]]

\* mutant: no try/except around the handler, its exception ends the request
DispatchStep_Raise(rq, call, out) ==
    IF out.raised # NoExc
    THEN [rq EXCEPT !.done = @ + 1, !.raised = Append(@, out.raised),
                    !.provider = Append(@, out.calls),
                    !.results = Append(@, DispatchResult(out)),
                    !.pc = "failed", !.error = out.raised]
    ELSE [rq EXCEPT !.done = @ + 1,
                    !.function_results = SetResult(@, call.name, DispatchResult(out)),
                    !.raised = Append(@, out.raised),
                    !.provider = Append(@, out.calls),
                    !.results = Append(@, DispatchResult(out)),
                    !.pc = IF rq.done + 1 = Len(rq.function_calls) THEN "returned"
                           ELSE "dispatch"]

\* the locals of the request after the iteration for call has ended in out
DispatchStep(rq, call, out) ==
    [rq EXCEPT !.done = @ + 1,
               !.function_results = SetResult(@, call.name, DispatchResult(out)),
               !.raised = Append(@, out.raised),
               !.provider = Append(@, out.calls),
               !.results = Append(@, DispatchResult(out)),
               !.pc = IF rq.done + 1 = Len(rq.function_calls) THEN "returned"
                      ELSE "dispatch"]

Dispatch(r) ==
    \E w \in WorldsFor(req[r].message) :
        LET call == req[r].function_calls[req[r].done + 1]
            out == Invoke(call.name, call.arguments, w)
        IN  /\ req[r].pc = "dispatch"
            /\ req[r].done < Len(req[r].function_calls)
            /\ sessions' = [sessions EXCEPT ![req[r].svc] =
                              AddMessage(@, req[r].session_id,
                                         DispatchTurn(call.name, out, r))]
            /\ req' = [req EXCEPT ![r] = DispatchStep(@, call, out)]
            /\ UNCHANGED <<uuids, hcall, hworld, hout>>

(***************************************************************************)
(* send_message (app/api/routers/chat.py) after process_message returned.  *)
(* Dates "%Y-%m-%d" are integers: a day of March 2025 is its day number,   *)
(* which is what the slot dicts of _get_available_slots carry in date.     *)
(***************************************************************************)
booking_keywords == <<"book", "schedule", "appointment", "meeting", "reserve">>

\* line 82: any(keyword in request.message.lower() for keyword in ...)
IsBookingRequest(message) ==
    \E k \in DOMAIN booking_keywords :
        Contains(LowerText(Chars(message)), Chars(booking_keywords[k]))

\* line 167
Hardcoded(cs) == Contains(cs, Chars("March 14th")) /\ Contains(cs, Chars("2:30"))

\* what send_message reads off the text of a message (lines 82, 101, 102,
\* 137, 154, 160, 167), computed once for each message of the model
AllMessages == Messages \cup BookingMessages

KeywordScan == [m \in AllMessages |-> IsBookingRequest(m)]

NameScan == [m \in AllMessages |-> NameMatch(Chars(m))]

EmailScan == [m \in AllMessages |-> EmailMatch(Chars(m))]

DateScan == [m \in AllMessages |-> DateMatch(Chars(m))]

TimeScan == [m \in AllMessages |-> TimeMatch(Chars(m))]

PmScan == [m \in AllMessages |-> Contains(LowerText(Chars(m)), Chars("pm"))]

HardcodedScan == [m \in AllMessages |-> Hardcoded(Chars(m))]

\* f"{year}-{month:02d}-{day:02d}" as an integer date
DateKey(year, month, day) == (year - 2025) * 10000 + (month - 3) * 100 + day

DateText(key) ==
    ToString(2025 + key \div 10000) \o "-" \o Pad2(3 + (key % 10000) \div 100)
        \o "-" \o Pad2(key % 100)

TimeText(time) == Pad2(time.hour) \o ":" \o Pad2(time.minute) \o ":00"

\* mutant: requires_action is set whether or not the model issued a call
PlainResponse_AlwaysAction(rq) ==
    LET calls == rq.function_calls
        results == rq.function_results
        text == IF rq.content # "" THEN rq.content
                ELSE "I'll check your scheduled events."
    IN  [response |-> IF calls = <<>> THEN text
                      ELSE IF calls[1].name \in DOMAIN results
                      THEN ToString(results[calls[1].name])
                      ELSE text,
         session_id |-> IF rq.session_arg # NoSession THEN rq.session_arg
                        ELSE "new_session",
         requires_action |-> TRUE,
         action_details |-> Take(calls, 1)]

\* lines 63-77: the response before auto-booking
PlainResponse(rq) ==
    LET calls == rq.function_calls
        results == rq.function_results
        text == IF rq.content # "" THEN rq.content
                ELSE "I'll check your scheduled events."
    IN  [response |-> IF calls = <<>> THEN text
                      ELSE IF calls[1].name \in DOMAIN results
                      THEN ToString(results[calls[1].name])
                      ELSE text,
         session_id |-> IF rq.session_arg # NoSession THEN rq.session_arg
                        ELSE "new_session",
         requires_action |-> calls # <<>>,
         action_details |-> Take(calls, 1)]

\* mutant: the keywords of the message are not looked at
AutoBookTriggered_AnyMessage(rq) ==
    IF rq.function_calls = <<>> THEN FALSE
    ELSE /\ rq.function_calls[1].name \in DOMAIN rq.function_results
         /\ rq.function_calls[1].name = "get_available_slots"

\* lines 71-86: function_name is the name of the first call of the list
AutoBookTriggered(rq) ==
    IF rq.function_calls = <<>> THEN FALSE
    ELSE /\ rq.function_calls[1].name \in DOMAIN rq.function_results
         /\ rq.function_calls[1].name = "get_available_slots"
         /\ KeywordScan[rq.message]

\* line 89: eval(str(...)) of the result stored under the function's name,
\* a dict of strings, integers and lists, gives that dict back
SlotsData(rq) == rq.function_results["get_available_slots"]

\* line 92
HasSlots(slots_data) ==
    IF "slots" \in DOMAIN slots_data THEN slots_data.slots # <<>> ELSE FALSE

\* lines 86-104: the conditions under which line 116 is reached
ReachesExtraction(rq) ==
    IF ~AutoBookTriggered(rq) THEN FALSE
    ELSE IF ~HasSlots(SlotsData(rq)) THEN FALSE
    ELSE /\ NameScan[rq.message].found
         /\ EmailScan[rq.message].found
         /\ SlotsData(rq).event_type_id # 0

\* the messages parse_date_with_llm sends to the completion provider
DateQuery(message) ==
    << [role |-> "system", content |-> "extract_datetime_prompt"],
       [role |-> "user", content |-> "Parse the following date/time: " \o message] >>

\* line 124
LLMResolves(info) ==
    info.given /\ info.date # Absent /\ info.start_time # NoTime

\* lines 119-170: target_date, target_time, and whether line 127 raised
ResolveTarget(message, info) ==
    LET date_match == DateScan[message]
        time_match == TimeScan[message]
        hour == IF PmScan[message] /\ time_match.hour < 12
                THEN time_match.hour + 12 ELSE time_match.hour
    IN  IF LLMResolves(info) /\ ~info.start_text
        THEN [raised |-> "TypeError", date |-> Absent, time |-> NoTime]
        ELSE IF HardcodedScan[message]
        THEN [raised |-> NoExc, date |-> DateKey(2025, 3, 14), time |-> TimeOfDay(14, 30)]
        ELSE IF LLMResolves(info)
        THEN [raised |-> NoExc, date |-> info.date, time |-> info.start_time]
        ELSE [raised |-> NoExc,
              date |-> IF date_match.found
                       THEN DateKey(2025, date_match.month, date_match.day)
                       ELSE Absent,
              time |-> IF time_match.found THEN TimeOfDay(hour, time_match.minute)
                       ELSE NoTime]

\* target_time in slot.get('start'): the start is an isoformat string
\* "YYYY-MM-DDTHH:MM:00+hh:mm", target_time is "HH:MM:00"
StartContains(start, target_time) ==
    TimeOfDay((start % DayLen) \div 60, start % 60) = target_time

\* mutant: without a match, the first slot of the list is used
FindTargetSlot_AnyDate(slots, target_date, target_time) ==
    LET exact == {i \in DOMAIN slots : /\ slots[i].date = target_date
                                       /\ StartContains(slots[i].start, target_time)}
    IN  IF exact # {} THEN <<slots[Min(exact)]>>
        ELSE IF slots # <<>> THEN <<slots[1]>>
        ELSE <<>>

\* lines 176-201: the slot to book, <<>> if there is none
FindTargetSlot(slots, target_date, target_time) ==
    LET exact == {i \in DOMAIN slots : /\ slots[i].date = target_date
                                       /\ StartContains(slots[i].start, target_time)}
        date_matches == {i \in DOMAIN slots : slots[i].date = target_date}
    IN  IF exact # {} THEN <<slots[Min(exact)]>>
        ELSE IF date_matches # {} THEN <<slots[Min(date_matches)]>>
        ELSE <<>>

\* mutant: the times of the first listed slot are sent
BookingCall_FirstSlot(slots_data, target_slot, name, email) ==
    [event_type_id |-> slots_data.event_type_id,
     start_time |-> slots_data.slots[1].start,
     end_time |-> slots_data.slots[1].end,
     name |-> name, email |-> email,
     title |-> "Appointment with " \o name]

\* lines 205-223: the arguments of calcom_service.book_event
BookingCall(slots_data, target_slot, name, email) ==
    [event_type_id |-> slots_data.event_type_id,
     start_time |-> target_slot.start,
     end_time |-> target_slot.end,
     name |-> name, email |-> email,
     title |-> "Appointment with " \o name]

\* mutant: the flags are cleared but the text is left as it was
Confirmation_KeepText(response, name, target_date, target_time, uid) ==
    [response EXCEPT !.requires_action = FALSE, !.action_details = <<>>]

\* lines 226-228
Confirmation(response, name, target_date, target_time, uid) ==
    [response EXCEPT
        !.response = "Appointment booked successfully for " \o name \o " on "
                     \o DateText(target_date) \o " at " \o TimeText(target_time)
                     \o ". Booking ID: " \o uid,
        !.requires_action = FALSE,
        !.action_details = <<>>]

\* send_message, lines 63-104 and 230-234, when auto-booking does not get
\* as far as the date extraction
CreateResponse(r) ==
    /\ req[r].pc = "returned"
    /\ req[r].via = "endpoint"
    /\ ~ReachesExtraction(req[r])
    /\ req' = [req EXCEPT ![r] =
                 [@ EXCEPT !.pc = "responded",
                           !.triggered = AutoBookTriggered(req[r]),
                           !.response = PlainResponse(req[r])]]
    /\ UNCHANGED <<sessions, uuids, hcall, hworld, hout>>

\* send_message, lines 63-116: name and email are extracted and the message
\* is handed to parse_date_with_llm
BeginAutoBook(r) ==
    /\ req[r].pc = "returned"
    /\ req[r].via = "endpoint"
    /\ ReachesExtraction(req[r])
    /\ req' = [req EXCEPT ![r] =
                 [@ EXCEPT !.pc = "extracting",
                           !.triggered = TRUE,
                           !.response = PlainResponse(req[r]),
                           !.event_type_id = SlotsData(req[r]).event_type_id,
                           !.name = Join(Strip(NameScan[req[r].message].group)),
                           !.email = Join(EmailScan[req[r].message].group),
                           !.date_query = DateQuery(req[r].message)]]
    /\ UNCHANGED <<sessions, uuids, hcall, hworld, hout>>

\* line 127 on a start_time that is not a str
StartTimeTypeError ==
    Exc("TypeError", "unsupported operand type(s) for +: 'int' and 'str'", 0, <<>>)

\* send_message, lines 116-212: parse_date_with_llm returns, the target date
\* and time are resolved and matched against the slots
ResolveSlot(r) ==
    \E info \in DateInfos :
        LET target == ResolveTarget(req[r].message, info)
            resolved == target.date # Absent /\ target.time # NoTime
            slots_data == SlotsData(req[r])
            target_slot == IF resolved
                           THEN FindTargetSlot(slots_data.slots, target.date, target.time)
                           ELSE <<>>
        IN  /\ req[r].pc = "extracting"
            /\ req' = [req EXCEPT ![r] =
                  IF target.raised # NoExc
                  THEN [@ EXCEPT !.pc = "failed", !.error = "AppException",
                                 !.date_info = info,
                                 !.cause = StartTimeTypeError,
                                 !.exc = Reraise(StartTimeTypeError)]
                  ELSE IF target_slot = <<>>
                  THEN [@ EXCEPT !.pc = "responded", !.date_info = info,
                                 !.target_date = target.date,
                                 !.target_time = target.time]
                  ELSE [@ EXCEPT !.pc = "booking", !.date_info = info,
                                 !.target_date = target.date,
                                 !.target_time = target.time,
                                 !.target_slot = target_slot,
                                 !.booking = <<BookingCall(slots_data, target_slot[1],
                                                           req[r].name, req[r].email)>>]]
            /\ UNCHANGED <<sessions, uuids, hcall, hworld, hout>>

\* mutant: the confirmation of a booking is appended to the history
BookSlot_Recorded(r) ==
    \E outcome \in BookOutcomes :
        LET call == req[r].booking[1]
            out == CalComBookEvent([BaseWorld EXCEPT !.book = outcome],
                                   call.event_type_id, call.start_time, call.end_time,
                                   call.name, call.email, call.title)
        IN  /\ req[r].pc = "booking"
            /\ req' = [req EXCEPT ![r] =
                  IF out.raised # NoExc
                  THEN [@ EXCEPT !.pc = "failed", !.error = "AppException",
                                 !.booking_calls = out.calls,
                                 !.cause = ExcOf(out),
                                 !.exc = Reraise(ExcOf(out))]
                  ELSE [@ EXCEPT !.pc = "responded",
                                 !.booking_calls = out.calls,
                                 !.response = Confirmation(@, req[r].name,
                                                  req[r].target_date, req[r].target_time,
                                                  out.value.uid)]]
            /\ sessions' = IF out.raised # NoExc THEN sessions
                           ELSE [sessions EXCEPT ![req[r].svc] =
                                    AddMessage(@, req[r].session_id,
                                               Turn("assistant", "booked", "", r))]
            /\ UNCHANGED <<uuids, hcall, hworld, hout>>

\* send_message, lines 215-228 and 242-244: book_event returns or raises
BookSlot(r) ==
    \E outcome \in BookOutcomes :
        LET call == req[r].booking[1]
            out == CalComBookEvent([BaseWorld EXCEPT !.book = outcome],
                                   call.event_type_id, call.start_time, call.end_time,
                                   call.name, call.email, call.title)
        IN  /\ req[r].pc = "booking"
            /\ req' = [req EXCEPT ![r] =
                  IF out.raised # NoExc
                  THEN [@ EXCEPT !.pc = "failed", !.error = "AppException",
                                 !.booking_calls = out.calls,
                                 !.cause = ExcOf(out),
                                 !.exc = Reraise(ExcOf(out))]
                  ELSE [@ EXCEPT !.pc = "responded",
                                 !.booking_calls = out.calls,
                                 !.response = Confirmation(@, req[r].name,
                                                  req[r].target_date, req[r].target_time,
                                                  out.value.uid)]]
            /\ UNCHANGED <<sessions, uuids, hcall, hworld, hout>>

\* the exception handlers of app/main.py: the request ends in an error payload
RequestFails(r) ==
    /\ req[r].pc = "failed"
    /\ req[r].via = "endpoint"
    /\ "status_code" \notin DOMAIN req[r].response
    /\ req' = [req EXCEPT ![r] =
                 [@ EXCEPT !.response = FormatErrorResponse(req[r].exc)]]
    /\ UNCHANGED <<sessions, uuids, hcall, hworld, hout>>

\* calls of process_message on one ChatService, possibly concurrent
Next ==
    \E r \in Requests :
        \/ ProcessMessage(r)
        \/ CompletionReturns(r)
        \/ CompletionFails(r)
        \/ Dispatch(r)

Spec == Init /\ [][Next]_vars

\* requests to POST /chat/message
NextEndpoint ==
    \E r \in Requests :
        \/ SendMessage(r)
        \/ SendMessageRaises(r)
        \/ CompletionReturns(r)
        \/ CompletionFails(r)
        \/ Dispatch(r)
        \/ CreateResponse(r)
        \/ RequestFails(r)

SpecEndpoint == Init /\ [][NextEndpoint]_vars

\* one request to POST /chat/message that may end in an automatic booking
\* (requests to the endpoint share no ChatService)
SendBookingMessage(r) ==
    \E session_arg \in SessionArgs, message \in BookingMessages :
        StartMessage(r, "endpoint", r, EmptyMap, session_arg, message)

NextAutoBook ==
    \/ SendBookingMessage(1)
    \/ CompletionReturns(1)
    \/ CompletionFails(1)
    \/ Dispatch(1)
    \/ CreateResponse(1)
    \/ BeginAutoBook(1)
    \/ ResolveSlot(1)
    \/ BookSlot(1)
    \/ RequestFails(1)

SpecAutoBook == Init /\ [][NextAutoBook]_vars

(***************************************************************************)
(* One handler invocation on drawn inputs.                                 *)
(***************************************************************************)
InitHandlers ==
    /\ sessions = [svc \in {SharedService} |-> EmptyMap]
    /\ req = [r \in Requests |-> IdleRequest]
    /\ uuids = 0
    /\ \E input \in HandlerInputs : hcall = input[1] /\ hworld = input[2]
    /\ hout = Pending

InvokeHandler ==
    /\ hout = Pending
    /\ hout' = Invoke(hcall.name, hcall.arguments, hworld)
    /\ UNCHANGED <<sessions, req, uuids, hcall, hworld>>

NextHandlers == InvokeHandler

SpecHandlers == InitHandlers /\ [][NextHandlers]_vars

(***************************************************************************)
(* The CalComService operations and the /calcom endpoints                  *)
(* (app/api/routers/calcom.py), each on drawn inputs.                      *)
(***************************************************************************)
RECURSIVE EventDetails(_, _, _)
\* list_events, lines 218-243: get_event for each booking from the k-th on;
\* a booking whose get_event raises is skipped
EventDetails(w, bookings, k) ==
    IF k > Len(bookings) THEN [events |-> <<>>, calls |-> <<>>]
    ELSE LET e == CalComGetEvent(w, bookings[k].uid)
             rest == EventDetails(w, bookings, k + 1)
         IN  [events |-> IF e.raised = NoExc THEN <<e.value>> \o rest.events
                         ELSE rest.events,
              calls |-> e.calls \o rest.calls]

\* mutant: a failing get_event ends the request
RouterListEvents_FailWhole(args, w) ==
    LET b == CalComGetBookings(w, args.email, args.start_date, args.end_date)
        d == EventDetails(w, b.value, 1)
    IN  IF b.raised # NoExc THEN b
        ELSE IF Len(d.events) < Len(b.value)
        THEN Raised("AppException", "Error listing events: Cal.com API error: 404",
                    b.calls \o d.calls)
        ELSE Returned([events |-> d.events, total |-> Len(d.events)],
                      b.calls \o d.calls)

\* POST /calcom/events (list_events, lines 205-264)
RouterListEvents(args, w) ==
    LET b == CalComGetBookings(w, args.email, args.start_date, args.end_date)
        d == EventDetails(w, b.value, 1)
    IN  IF b.raised # NoExc THEN b
        ELSE Returned([events |-> d.events, total |-> Len(d.events)],
                      b.calls \o d.calls)

\* DELETE /calcom/bookings/{booking_id} (cancel_event, lines 284-323)
RouterCancelEvent(args, w) ==
    LET e == CalComGetEvent(w, args.booking_id)
        c == CalComCancelBooking(w, args.booking_id)
    IN  IF e.raised # NoExc
        THEN [Raised("NotFoundError",
                     "Booking with ID " \o args.booking_id \o " not found", e.calls)
                 EXCEPT !.details = [booking_id |-> args.booking_id]]
        ELSE IF c.raised # NoExc THEN [c EXCEPT !.calls = e.calls \o c.calls]
        ELSE Returned([success |-> TRUE, booking_id |-> args.booking_id,
                       status |-> "CANCELLED"], e.calls \o c.calls)

\* inputs: the calls of the operations, the requests to the endpoints, and
\* the provider worlds each is drawn with
ServiceInputs ==
    LET ServiceEventTypes ==
            << [id |-> 5, title |-> "Open house", length |-> 0],
               [id |-> 3, title |-> "Standard meeting", length |-> 30],
               [id |-> 2, title |-> "Consultation", length |-> 45] >>
        BookEventCalls ==
            { ToolCall("CalComService.book_event",
                       [NoArgs EXCEPT !.event_type_id = e, !.start_time = SlotTime,
                                      !.end_time = SlotTime + 30, !.name = n,
                                      !.email = "jane@example.com"]) :
                e \in {2, 3}, n \in {"Jane Doe", "Bob"} }
        BookEventWorlds ==
            { [BaseWorld EXCEPT !.book = b, !.uid = u] :
                b \in BookOutcomes, u \in {"bk-1", "bk-7"} }
        SlotQueryCalls ==
            { ToolCall("CalComService.get_available_slots",
                       [NoArgs EXCEPT !.event_type_id = e, !.start_date = d * DayLen,
                                      !.end_date = (d + n) * DayLen]) :
                e \in {2, 3, 5, 9}, d \in {RequestedDay, RequestedDay + 8},
                n \in {1, PrimaryWindowDays} }
        SlotQueryWorlds ==
            { [BaseWorld EXCEPT !.ets = ServiceEventTypes, !.etsFail = ef, !.slots = s,
                                !.slotsFail = sf, !.slotLength = l] :
                ef \in BOOLEAN, s \in SlotLists, sf \in BOOLEAN, l \in {20, 30} }
        BookingPool ==
            { BaseWorld.bookings[1], BaseWorld.bookings[2],
              [uid |-> "bk-3", title |-> "Review",
               start_time |-> (RequestedDay + 1) * DayLen + 600,
               end_time |-> (RequestedDay + 1) * DayLen + 645,
               status |-> "ACCEPTED", eventTypeId |-> 2,
               attendees |-> << [email |-> "bob@example.com", name |-> "Bob"],
                                [email |-> "Jane@Example.com", name |-> "Jane Doe"] >>],
              [uid |-> "bk-4", title |-> "Hold",
               start_time |-> (RequestedDay + 2) * DayLen + 600,
               end_time |-> (RequestedDay + 2) * DayLen + 630,
               status |-> "CANCELLED", eventTypeId |-> 3,
               attendees |-> << [email |-> "JANE@EXAMPLE.COM", name |-> "Jane Doe"] >>] }
        BookingLists ==
            { l \in UNION { [1..n -> BookingPool] : n \in 0..MaxEts } :
                \A i, j \in DOMAIN l : l[i] = l[j] => i = j }
        BookingsCalls ==
            { ToolCall("CalComService.get_bookings", [NoArgs EXCEPT !.email = m]) :
                m \in {"", "jane@example.com", "JANE@EXAMPLE.COM", "Bob@Example.com",
                       "ann@example.com"} }
        BookingsWorlds ==
            { [BaseWorld EXCEPT !.bookings = l, !.bookingsFail = f] :
                l \in BookingLists, f \in BOOLEAN }
        OtherServiceCalls ==
            { ToolCall("CalComService.get_event_types", NoArgs) }
            \cup { ToolCall(op, [NoArgs EXCEPT !.booking_id = b]) :
                     op \in {"CalComService.cancel_booking", "CalComService.get_event"},
                     b \in {"bk-1", "bk-2", "bk-9"} }
            \cup { ToolCall("CalComService.reschedule_booking",
                            [NoArgs EXCEPT !.booking_id = b, !.start_time = SlotTime,
                                           !.end_time = SlotTime + 30]) :
                     b \in {"bk-1", "bk-9"} }
        OtherServiceWorlds ==
            { BaseWorld, DownWorld, [BaseWorld EXCEPT !.detailFail = {"bk-1"}] }
        ListEventsRequests ==
            { ToolCall("POST /calcom/events",
                       [NoArgs EXCEPT !.email = m, !.start_date = s, !.end_date = t]) :
                m \in {"jane@example.com", "Bob@Example.com"},
                s \in {Absent, RequestedDay * DayLen},
                t \in {Absent, (RequestedDay + 7) * DayLen} }
        ListEventsWorlds ==
            { [BaseWorld EXCEPT !.bookings = l, !.bookingsFail = f, !.detailFail = d,
                                !.etsFail = ef] :
                l \in BookingLists, f \in BOOLEAN, d \in SUBSET {"bk-1", "bk-3"},
                ef \in BOOLEAN }
        CancelRequests ==
            { ToolCall("DELETE /calcom/bookings", [NoArgs EXCEPT !.booking_id = b]) :
                b \in {"bk-1", "bk-2", "bk-9"} }
        CancelWorlds ==
            { [BaseWorld EXCEPT !.detailFail = d, !.etsFail = ef, !.cancelFail = cf] :
                d \in SUBSET {"bk-1"}, ef \in BOOLEAN, cf \in BOOLEAN }
    IN  (BookEventCalls \X BookEventWorlds) \cup (SlotQueryCalls \X SlotQueryWorlds)
        \cup (BookingsCalls \X BookingsWorlds)
        \cup (OtherServiceCalls \X OtherServiceWorlds)
        \cup (ListEventsRequests \X ListEventsWorlds)
        \cup (CancelRequests \X CancelWorlds)

InitCalCom ==
    /\ sessions = [svc \in {SharedService} |-> EmptyMap]
    /\ req = [r \in Requests |-> IdleRequest]
    /\ uuids = 0
    /\ \E input \in ServiceInputs : hcall = input[1] /\ hworld = input[2]
    /\ hout = Pending

\* the operation named by hcall runs to its end
Runs(name, out) ==
    /\ hout = Pending
    /\ hcall.name = name
    /\ hout' = out
    /\ UNCHANGED <<sessions, req, uuids, hcall, hworld>>

CallGetEventTypes ==
    Runs("CalComService.get_event_types", CalComGetEventTypes(hworld))

CallGetAvailableSlots ==
    Runs("CalComService.get_available_slots",
         CalComGetAvailableSlots(hworld, hcall.arguments.event_type_id,
                                 hcall.arguments.start_date, hcall.arguments.end_date))

CallBookEvent ==
    Runs("CalComService.book_event",
         CalComBookEvent(hworld, hcall.arguments.event_type_id,
                         hcall.arguments.start_time, hcall.arguments.end_time,
                         hcall.arguments.name, hcall.arguments.email, ""))

CallGetBookings ==
    Runs("CalComService.get_bookings",
         CalComGetBookings(hworld, hcall.arguments.email,
                           hcall.arguments.start_date, hcall.arguments.end_date))

CallCancelBooking ==
    Runs("CalComService.cancel_booking",
         CalComCancelBooking(hworld, hcall.arguments.booking_id))

CallRescheduleBooking ==
    Runs("CalComService.reschedule_booking",
         CalComRescheduleBooking(hworld, hcall.arguments.booking_id,
                                 hcall.arguments.start_time, hcall.arguments.end_time))

CallGetEvent ==
    Runs("CalComService.get_event", CalComGetEvent(hworld, hcall.arguments.booking_id))

PostEvents ==
    Runs("POST /calcom/events", RouterListEvents(hcall.arguments, hworld))

DeleteBooking ==
    Runs("DELETE /calcom/bookings", RouterCancelEvent(hcall.arguments, hworld))

NextCalCom ==
    \/ CallGetEventTypes
    \/ CallGetAvailableSlots
    \/ CallBookEvent
    \/ CallGetBookings
    \/ CallCancelBooking
    \/ CallRescheduleBooking
    \/ CallGetEvent
    \/ PostEvents
    \/ DeleteBooking

SpecCalCom == InitCalCom /\ [][NextCalCom]_vars

(***************************************************************************)
(* Properties.                                                             *)
(***************************************************************************)
History(r) == sessions[req[r].svc][req[r].session_id]

\* positions of the turns of request r with the given role in its session
TurnsOf(r, role) ==
    {i \in DOMAIN History(r) : History(r)[i].origin = r /\ History(r)[i].role = role}

Started(r) == req[r].pc # "idle"

\* C1: every session of a ChatService holds exactly one System turn, and it
\* is the first turn of the history, whatever calls were made on the service
SystemTurnFirstAndOnly ==
    \A svc \in DOMAIN sessions : \A id \in DOMAIN sessions[svc] :
        LET h == sessions[svc][id]
        IN  /\ Len(h) >= 1
            /\ h[1].role = "system"
            /\ \A i \in DOMAIN h : h[i].role = "system" => i = 1

\* a session that two messages named: its history holds both user turns
SessionReused ==
    \E r, q \in Requests :
        /\ r # q /\ Started(r) /\ Started(q)
        /\ req[r].svc = req[q].svc /\ req[r].session_id = req[q].session_id
        /\ TurnsOf(r, "user") # {} /\ TurnsOf(q, "user") # {}

\* C2: a message sent to the endpoint after an earlier message with the same
\* session_id has returned reaches the completion provider with the user and
\* assistant turns of the earlier message in its history
HistoryCarriesEarlierMessage ==
    \A r, q \in Requests :
        ( /\ Started(r) /\ q \in req[r].preceded
          /\ req[r].session_arg # NoSession
          /\ req[q].session_arg = req[r].session_arg )
        => \E i, j \in DOMAIN req[r].sent :
              /\ i < j
              /\ req[r].sent[i] = Turn("user", req[q].message, "", q)
              /\ req[r].sent[j] = Turn("assistant", req[q].content, "", q)

\* C3: the session_id of the response is the id of the session that holds
\* the message's turns, and two requests without session_id get different ids
ResponseNamesStoredSession ==
    /\ \A r \in Requests :
         req[r].pc = "responded" => req[r].response.session_id = req[r].session_id
    /\ \A r, q \in Requests :
         ( /\ r # q /\ req[r].pc = "responded" /\ req[q].pc = "responded"
           /\ req[r].session_arg = NoSession /\ req[q].session_arg = NoSession )
         => req[r].response.session_id # req[q].response.session_id

\* the last dispatched call of request r with the name of its i-th call
LastOfName(r, i) ==
    \A j \in (i + 1)..req[r].done :
        req[r].function_calls[j].name # req[r].function_calls[i].name

\* C4: a failing handler never ends the request: its error is recorded in
\* band under the function's name and every tool call of the turn is
\* dispatched
FailingCallStaysInBand ==
    \A r \in Requests :
        /\ req[r].pc = "failed" => req[r].function_calls = <<>>
        /\ req[r].pc = "dispatch" => req[r].done < Len(req[r].function_calls)
        /\ req[r].pc \in {"returned", "responded"}
              => req[r].done = Len(req[r].function_calls)
        /\ \A i \in 1..req[r].done :
              LastOfName(r, i) =>
                 LET result == req[r].function_results[req[r].function_calls[i].name]
                 IN  (req[r].raised[i] # NoExc) <=> ("error" \in DOMAIN result)

\* a turn of two tool calls whose first handler failed and whose second ran
FailedCallThenNextDispatched ==
    \E r \in Requests :
        /\ req[r].pc = "returned" /\ req[r].done = 2
        /\ req[r].raised[1] # NoExc /\ req[r].raised[2] = NoExc

\* the function turns of request r, in history order
FunctionTurns(r) ==
    SelectSeq(History(r), LAMBDA t : t.role = "function" /\ t.origin = r)

\* C5: the dispatched tool calls of a message and its tool-result turns
\* correspond one to one, in the order of the calls, each turn carrying the
\* name of its function, for succeeding and failing calls alike
OneNamedTurnPerCall ==
    \A r \in Requests :
        Started(r) =>
            /\ Len(FunctionTurns(r)) = req[r].done
            /\ \A i \in 1..req[r].done :
                  /\ FunctionTurns(r)[i].name = req[r].function_calls[i].name
                  /\ FunctionTurns(r)[i].name # ""

\* two tool calls with different names, the first succeeded, the second failed
SuccessAndFailureDispatched ==
    \E r \in Requests :
        /\ req[r].done = 2
        /\ req[r].function_calls[1].name # req[r].function_calls[2].name
        /\ req[r].raised[1] = NoExc /\ req[r].raised[2] # NoExc

\* C6: within one process_message call the user turn is in the history
\* handed to the completion provider, which holds no later turn of the
\* message; the assistant turn follows the user turn and every tool-result
\* turn follows the assistant turn
TurnsInOperationOrder ==
    \A r \in Requests :
        Started(r) =>
            /\ Cardinality(TurnsOf(r, "user")) = 1
            /\ req[r].sent # <<>>
            /\ req[r].sent[Len(req[r].sent)] = Turn("user", req[r].message, "", r)
            /\ IsPrefix(req[r].sent, History(r))
            /\ \A i \in DOMAIN req[r].sent :
                  req[r].sent[i].origin = r => req[r].sent[i].role = "user"
            /\ IF req[r].pc \in {"completion", "failed"}
               THEN TurnsOf(r, "assistant") = {} /\ TurnsOf(r, "function") = {}
               ELSE /\ Cardinality(TurnsOf(r, "assistant")) = 1
                    /\ \A u \in TurnsOf(r, "user"), a \in TurnsOf(r, "assistant") :
                          /\ u < a
                          /\ \A f \in TurnsOf(r, "function") : a < f

\* a message whose turns are all appended, with a turn of another message
\* of the same session between its user turn and its last tool-result turn
AllTurnsAppendedInterleaved ==
    \E r, q \in Requests :
        /\ r # q /\ req[r].pc = "returned" /\ req[r].done >= 1 /\ Started(q)
        /\ req[q].svc = req[r].svc /\ req[q].session_id = req[r].session_id
        /\ \E u \in TurnsOf(r, "user"), f \in TurnsOf(r, "function"),
              x \in DOMAIN History(r) :
                 u < x /\ x < f /\ History(r)[x].origin = q

\* C7: the history of a session only grows: in every step each existing
\* session is kept and its history before the step is a prefix of its
\* history after the step
HistoryAppendOnly ==
    [][ \A svc \in DOMAIN sessions :
          /\ svc \in DOMAIN sessions'
          /\ \A id \in DOMAIN sessions[svc] :
                /\ id \in DOMAIN sessions'[svc]
                /\ IsPrefix(sessions[svc][id], sessions'[svc][id]) ]_vars

\* a session whose history has grown over two messages and a tool call
HistoryGrown ==
    \E svc \in DOMAIN sessions : \E id \in DOMAIN sessions[svc] :
        /\ Len(sessions[svc][id]) >= 6
        /\ \E i \in DOMAIN sessions[svc][id] : sessions[svc][id][i].role = "function"

Invoked == hout.raised # "pending"

\* a parameter the function's schema requires is missing from the call
MissingRequired(call) ==
    LET a == call.arguments
    IN  CASE call.name = "get_available_slots" -> a.date = Absent
          [] call.name = "book_event" ->
                a.start_time = Absent \/ a.end_time = Absent \/ a.name = "" \/ a.email = ""
          [] call.name = "list_events" -> a.email = ""
          [] call.name = "cancel_event" -> a.booking_id = ""
          [] call.name = "reschedule_event" ->
                a.booking_id = "" \/ a.start_time = Absent \/ a.end_time = Absent
          [] OTHER -> FALSE

\* C8: a handler called without a required parameter makes no provider call
\* and fails with a ValidationError
ValidationBeforeProviderCall ==
    (Invoked /\ MissingRequired(hcall))
        => hout.calls = <<>> /\ hout.raised = "ValidationError"

\* the duration the default selection is asked for
RequestedDuration(call) ==
    LET a == call.arguments
    IN  IF call.name = "get_available_slots"
        THEN IF a.duration = Absent THEN 30 ELSE a.duration
        ELSE IF a.start_time # Absent /\ a.end_time # Absent
             THEN a.end_time - a.start_time ELSE 30

Distance(event_types, i, duration) == Abs(event_types[i].length - duration)

ExactMatches(event_types, duration) ==
    {i \in DOMAIN event_types : event_types[i].length = duration}

ClosestMatches(event_types, duration) ==
    {i \in DOMAIN event_types :
        \A j \in DOMAIN event_types :
            Distance(event_types, i, duration) <= Distance(event_types, j, duration)}

\* the first exact match if any, else the first closest in listing order
ClosestFirst(event_types, duration) ==
    IF ExactMatches(event_types, duration) # {}
    THEN event_types[Min(ExactMatches(event_types, duration))]
    ELSE event_types[Min(ClosestMatches(event_types, duration))]

\* the event type ids the handler sent to the provider's slots and bookings
QueriedEventTypes ==
    {hout.calls[i].eventTypeId : i \in {k \in DOMAIN hout.calls :
                                          hout.calls[k].op # "GET event-types"}}

DefaultSelectionRuns ==
    /\ Invoked
    /\ hcall.name \in {"get_available_slots", "book_event"}
    /\ Omitted(hcall.arguments.event_type_id)
    /\ hworld.ets # <<>>
    /\ QueriedEventTypes # {}

SecondaryWindowSlots ==
    IF hworld.slotsFail
       \/ \A i \in DOMAIN hworld.ets : hworld.ets[i].id # hout.value.event_type_id
    THEN <<>>
    ELSE ProviderSlots(hworld, (hcall.arguments.date + 1) * DayLen,
                       (hcall.arguments.date + 1 + 14) * DayLen)

EmptyPrimaryResult ==
    /\ Invoked
    /\ hcall.name = "get_available_slots"
    /\ hout.raised = NoExc
    /\ hout.value.slots = <<>>

\* C10: a get_available_slots result without primary-window slots carries
\* alternative_slots: the first (at most 10) slots, in provider order, of the
\* 14-day window that starts the day after the requested date
AlternativeSlotsOnEmptyPrimary ==
    EmptyPrimaryResult =>
        /\ "alternative_slots" \in DOMAIN hout.value
        /\ Len(hout.value.alternative_slots) <= 10
        /\ [i \in DOMAIN hout.value.alternative_slots |->
               hout.value.alternative_slots[i].start]
             = Take(SecondaryWindowSlots, 10)
        /\ \A i \in DOMAIN hout.value.alternative_slots :
               hout.value.alternative_slots[i].date
                  = hout.value.alternative_slots[i].start \div DayLen

\* the secondary window holds more than 10 slots and 10 are returned
AlternativesCutAtTen ==
    /\ EmptyPrimaryResult
    /\ Len(SecondaryWindowSlots) > 10
    /\ Len(hout.value.alternative_slots) = 10

\* a get_available_slots result none of whose slots is on the requested date
RequestedDateEmpty ==
    /\ Invoked
    /\ hcall.name = "get_available_slots"
    /\ hout.raised = NoExc
    /\ \A i \in DOMAIN hout.value.slots :
          hout.value.slots[i].date # hcall.arguments.date

\* C11: when no returned slot is on the requested date, the handler has
\* queried the 14-day secondary window and its result carries
\* alternative_slots, also when other days of the primary window have slots
AlternativesWhenRequestedDateEmpty ==
    RequestedDateEmpty =>
        /\ "alternative_slots" \in DOMAIN hout.value
        /\ \E i \in DOMAIN hout.calls :
              /\ hout.calls[i].op = "GET slots"
              /\ hout.calls[i].startTime = (hcall.arguments.date + 1) * DayLen

(***************************************************************************)
(* Properties of send_message and its auto-booking.                        *)
(***************************************************************************)
Answered(r) == req[r].via = "endpoint" /\ req[r].pc = "responded"

\* the text of the result stored under the name of the first tool call
PlainText(r) ==
    ToString(req[r].function_results[req[r].function_calls[1].name])

\* the response is the tool result, with the action flag set
PlainToolResult(r) ==
    /\ req[r].response.response = PlainText(r)
    /\ req[r].response.requires_action = TRUE

\* a booking was made for request r and the response reports it
Overridden(r) == Answered(r) /\ req[r].booking_calls # <<>>

LastCall(r) == req[r].function_calls[Len(req[r].function_calls)]

\* C12: auto-booking is entered only for a message whose last dispatched
\* tool call is get_available_slots
AutoBookDecidedByLastCall ==
    \A r \in Requests :
        req[r].triggered => LastCall(r).name = "get_available_slots"

KeywordFree(r) == ~KeywordScan[req[r].message]

\* C13: for a message without booking keyword no date extraction and no
\* booking is made, and the answer to a message with tool calls is the plain
\* tool result with requires_action set
NoKeywordNoAutoBook ==
    \A r \in Requests :
        (req[r].via = "endpoint" /\ Started(r) /\ KeywordFree(r)) =>
            /\ req[r].date_query = <<>>
            /\ req[r].booking = <<>>
            /\ req[r].booking_calls = <<>>
            /\ (Answered(r) /\ req[r].function_calls # <<>>) => PlainToolResult(r)

\* a message without keyword that names attendee, email, date and time, and
\* a slots lookup that found slots for it
KeywordFreeWithSlots ==
    \E r \in Requests :
        /\ Answered(r) /\ KeywordFree(r)
        /\ req[r].function_calls # <<>>
        /\ NameScan[req[r].message].found
        /\ EmailScan[req[r].message].found
        /\ req[r].function_calls[1].name = "get_available_slots"
        /\ HasSlots(SlotsData(req[r]))

\* what auto-booking needs and request r lacks
SomethingMissing(r) ==
    \/ ~HasSlots(SlotsData(req[r]))
    \/ ~NameScan[req[r].message].found
    \/ ~EmailScan[req[r].message].found
    \/ req[r].target_date = Absent
    \/ req[r].target_time = NoTime

\* C14: a booking call is made only with slots, event type, name, email,
\* target date and target time at hand; when one of them is missing the
\* request ends, without failing, in the plain tool result
BookingOnlyWhenAllResolved ==
    \A r \in Requests :
        /\ req[r].booking # <<>> =>
              /\ ~SomethingMissing(r)
              /\ SlotsData(req[r]).event_type_id # 0
        /\ (req[r].triggered /\ req[r].pc \in {"responded", "failed"}
               /\ SomethingMissing(r))
              => /\ req[r].pc = "responded"
                 /\ req[r].booking = <<>>
                 /\ PlainToolResult(r)

\* the slots of the result that are on the target date, and those of them
\* that start at the target time
OnTargetDate(r) ==
    {i \in DOMAIN SlotsData(req[r]).slots :
        SlotsData(req[r]).slots[i].date = req[r].target_date}

AtTargetTime(r) ==
    {i \in OnTargetDate(r) :
        LET start == SlotsData(req[r]).slots[i].start
        IN  /\ (start % DayLen) \div 60 = req[r].target_time.hour
            /\ start % 60 = req[r].target_time.minute}

TargetResolved(r) ==
    /\ req[r].via = "endpoint"
    /\ req[r].pc \in {"booking", "responded", "failed"}
    /\ req[r].target_date # Absent
    /\ req[r].target_time # NoTime

\* C15: the slot booked is the first one on the target date at the target
\* time, else the first one on the target date; without a slot on the target
\* date nothing is booked and the answer is the plain slots listing
SlotResolution ==
    \A r \in Requests :
        TargetResolved(r) =>
            LET slots == SlotsData(req[r]).slots
            IN  /\ AtTargetTime(r) # {} =>
                      req[r].target_slot = <<slots[Min(AtTargetTime(r))]>>
                /\ (AtTargetTime(r) = {} /\ OnTargetDate(r) # {}) =>
                      req[r].target_slot = <<slots[Min(OnTargetDate(r))]>>
                /\ OnTargetDate(r) # {} => req[r].booking # <<>>
                /\ OnTargetDate(r) = {} =>
                      /\ req[r].booking = <<>>
                      /\ req[r].pc = "responded"
                      /\ PlainToolResult(r)
                /\ req[r].booking # <<>> =>
                      req[r].booking[1].start_time \div DayLen = req[r].target_date

\* no slot at the target time, and the first slot on the target date is not
\* the first slot of the list
DegradedMatchBooked ==
    \E r \in Requests :
        /\ TargetResolved(r)
        /\ AtTargetTime(r) = {}
        /\ OnTargetDate(r) # {}
        /\ Min(OnTargetDate(r)) > 1
        /\ req[r].booking # <<>>

JaneMessage ==
    "Book an appointment for Jane Doe (jane@example.com) on March 14th at 2:30pm"

\* C16: the booking call carries the event type of the slots result, start
\* and end of the resolved slot, the name and email of the message and the
\* title "Appointment with {name}"; for the Jane Doe message and a slot on
\* March 14th at 14:30 it books that instant for "Jane Doe"
BookingCallCarriesResolvedSlot ==
    \A r \in Requests :
        req[r].booking # <<>> =>
            LET call == req[r].booking[1]
                slots == SlotsData(req[r]).slots
            IN  /\ call.event_type_id = SlotsData(req[r]).event_type_id
                /\ \E i \in DOMAIN slots :
                      /\ req[r].target_slot = <<slots[i]>>
                      /\ call.start_time = slots[i].start
                      /\ call.end_time = slots[i].end
                /\ call.name = Join(Strip(NameScan[req[r].message].group))
                /\ call.email = Join(EmailScan[req[r].message].group)
                /\ call.title = "Appointment with " \o call.name
                /\ (/\ req[r].message = JaneMessage
                    /\ \E i \in DOMAIN slots : slots[i].start = 14 * DayLen + 870)
                      => /\ call.start_time = 14 * DayLen + 870
                         /\ call.name = "Jane Doe"
                         /\ call.email = "jane@example.com"

\* the Jane Doe message booked at 14:30 on March 14th, a slot that is not the
\* first of the list
JaneDoeBookedAtHalfPastTwo ==
    \E r \in Requests :
        /\ req[r].message = JaneMessage
        /\ req[r].booking_calls # <<>>
        /\ req[r].booking[1].start_time = 14 * DayLen + 870
        /\ SlotsData(req[r]).slots[1].start # 14 * DayLen + 870

\* C17: after a successful booking the response text is the confirmation with
\* attendee, date and time, requires_action is false and action_details is
\* absent; otherwise the text of a response to a message with tool calls is
\* the tool result
ConfirmationOnlyOnSuccess ==
    \A r \in Requests :
        (Answered(r) /\ req[r].function_calls # <<>>) =>
            IF req[r].booking_calls # <<>>
            THEN /\ req[r].response.response =
                       "Appointment booked successfully for " \o req[r].booking[1].name
                       \o " on " \o DateText(req[r].target_date)
                       \o " at " \o TimeText(req[r].target_time)
                       \o ". Booking ID: " \o "bk-1"
                 /\ req[r].response.response # PlainText(r)
                 /\ req[r].response.requires_action = FALSE
                 /\ req[r].response.action_details = <<>>
            ELSE req[r].response.response = PlainText(r)

\* a booking that succeeded on the retry, confirmed for Bob at 15:15
BookingConfirmedAfterRetry ==
    \E r \in Requests :
        /\ Overridden(r)
        /\ Len(req[r].booking_calls) = 2
        /\ req[r].booking[1].name = "Bob"
        /\ req[r].response.response =
              "Appointment booked successfully for Bob on 2025-03-12 at 15:15:00. Booking ID: bk-1"

\* C18: once auto-booking has started, the request fails only if the
\* provider's booking call failed
OnlyBookingFailurePropagates ==
    \A r \in Requests :
        (req[r].via = "endpoint" /\ req[r].pc = "failed" /\ req[r].triggered)
            => req[r].booking_calls # <<>>

\* calls of request r to the completion provider
CompletionCalls(r) ==
    (IF req[r].sent # <<>> THEN 1 ELSE 0) + (IF req[r].date_query # <<>> THEN 1 ELSE 0)

\* C19: a request calls the completion provider at most once and dispatches
\* its tool calls in one round
OneCompletionOneDispatchRound ==
    \A r \in Requests :
        /\ CompletionCalls(r) <= 1
        /\ req[r].done <= Len(req[r].function_calls)
        /\ Started(r) => Len(FunctionTurns(r)) = req[r].done

\* C20: in a successful response requires_action is set exactly when the
\* model issued a tool call and no booking overrode the response, and
\* action_details is the first tool call then and absent otherwise
RequiresActionIffCallsNotOverridden ==
    \A r \in Requests :
        Answered(r) =>
            /\ req[r].response.requires_action
                  = (req[r].function_calls # <<>> /\ ~Overridden(r))
            /\ req[r].response.action_details
                  = IF req[r].response.requires_action
                    THEN <<req[r].function_calls[1]>>
                    ELSE <<>>

\* a response to a message with two tool calls that no booking overrode
TwoCallsFirstEchoed ==
    \E r \in Requests :
        /\ Answered(r) /\ ~Overridden(r)
        /\ Len(req[r].function_calls) = 2
        /\ req[r].function_calls[1] # req[r].function_calls[2]
        /\ req[r].response.action_details = <<req[r].function_calls[1]>>


\* the operation drawn for the run has ended
Ran(name) == hcall.name = name /\ hout # Pending

\* the requests to the provider's booking endpoint among the calls
BookingPosts(calls) ==
    SelectSeq(calls, LAMBDA c : c.op \in {"POST bookings inPerson",
                                           "POST bookings userPhone"})

\* the operations of CalComService other than book_event
OtherOperations ==
    {"CalComService.get_event_types", "CalComService.get_available_slots",
     "CalComService.get_bookings", "CalComService.cancel_booking",
     "CalComService.reschedule_booking", "CalComService.get_event"}

\* C21: book_event sends the booking request at most twice; the second
\* request (alternate location) is sent exactly when the first was answered
\* with the no-available-users error; any other failure of the first, and
\* any failure of the second, is raised with no further request; no other
\* operation sends any request twice
BookingRetriedOnceOnlyForNoAvailableUsers ==
    /\ Ran("CalComService.book_event") =>
          LET posts == BookingPosts(hout.calls)
              first == hworld.book[1]
              second == hworld.book[2]
          IN  /\ hout.calls = posts
              /\ Len(posts) \in {1, 2}
              /\ posts[1].op = "POST bookings inPerson"
              /\ Len(posts) = 2 <=> first = "no_available_users_found_error"
              /\ Len(posts) = 2 => posts[2].op = "POST bookings userPhone"
              /\ (first \notin {"ok", "no_available_users_found_error"})
                    => hout.raised = "CalComAPIError"
              /\ (first = "no_available_users_found_error" /\ second # "ok")
                    => hout.raised = "CalComAPIError"
              /\ (first = "no_available_users_found_error" /\ second = "ok")
                    => hout.raised = NoExc
    /\ (hout # Pending /\ hcall.name \in OtherOperations) =>
          \A i, j \in DOMAIN hout.calls : hout.calls[i] = hout.calls[j] => i = j

\* witness of C21: the retry was made and failed in its turn
RetryFailedAfterTwoAttempts ==
    /\ Ran("CalComService.book_event")
    /\ hworld.book = << "no_available_users_found_error", "conflict" >>
    /\ Len(hout.calls) = 2
    /\ hout.raised = "CalComAPIError"
    /\ hout.status_code = 409

\* the tool call and the endpoint that cancel a booking
CancelPaths == {"cancel_event", "DELETE /calcom/bookings"}

\* get_event on the booking raises
LookupFails(w, booking_id) == CalComGetEvent(w, booking_id).raised # NoExc

\* C22: on every path that cancels a booking, a booking id whose lookup
\* fails ends in NotFoundError (status 404) and no cancel request is sent to
\* the provider
CancelOfUnknownBookingIsNotFound ==
    ( /\ hout # Pending
      /\ hcall.name \in CancelPaths
      /\ hcall.arguments.booking_id # ""
      /\ LookupFails(hworld, hcall.arguments.booking_id) )
    => /\ hout.raised = "NotFoundError"
       /\ hout.status_code = 404
       /\ \A i \in DOMAIN hout.calls :
             hout.calls[i].op # "DELETE bookings/" \o hcall.arguments.booking_id

\* request r to the endpoint has been answered with an error payload
Refused(r) ==
    /\ req[r].via = "endpoint"
    /\ req[r].pc = "failed"
    /\ "error" \in DOMAIN req[r].response

\* C23: a failed request to POST /chat/message is answered with a payload
\* that carries a code, a message and a status; if what was raised is
\* neither a ValidationError nor an OpenAIAPIError the status is 500 and
\* the message ends with the text of the original exception (so contains
\* it); a ValidationError keeps its status 400 and its message
StructuredErrorPayload ==
    \A r \in Requests :
        Refused(r) =>
            LET payload == req[r].response
                cause == req[r].cause
            IN  /\ {"code", "message", "status_code"} \subseteq DOMAIN payload.error
                /\ payload.error.code # ""
                /\ payload.error.status_code = payload.status_code
                /\ cause.cls \notin {"ValidationError", "OpenAIAPIError"}
                      => /\ payload.status_code = 500
                         /\ payload.error.message
                              = "Error processing message: " \o cause.message
                /\ cause.cls = "ValidationError"
                      => /\ payload.status_code = 400
                         /\ payload.error.message = cause.message

\* witness of C23: one request refused with 500 after Exception("Test
\* error"), another with 400 after a ValidationError
TestErrorAndValidationErrorRefused ==
    /\ Refused(1)
    /\ req[1].cause.cls = "Exception"
    /\ req[1].response.error.message = "Error processing message: Test error"
    /\ req[1].response.status_code = 500
    /\ Refused(2)
    /\ req[2].cause.cls = "ValidationError"
    /\ req[2].response.status_code = 400

\* the booking call of auto-booking was rejected by the provider
BookingRejected(r) ==
    /\ Refused(r)
    /\ req[r].booking_calls # <<>>
    /\ req[r].cause.cls = "CalComAPIError"

\* C24: when the provider rejects the booking of auto-booking with status
\* S, the error payload of the chat endpoint has status S and carries the
\* provider's details
UpstreamStatusAndDetailsSurface ==
    \A r \in Requests :
        BookingRejected(r) =>
            /\ req[r].response.status_code = req[r].cause.status_code
            /\ req[r].response.error.status_code = req[r].cause.status_code
            /\ "details" \in DOMAIN req[r].response.error
            /\ req[r].response.error.details = req[r].cause.details

\* C25: get_available_slots never raises: whatever request to the provider
\* fails, the fetch of the event types included, it returns the empty list
SlotsFailSoft ==
    Ran("CalComService.get_available_slots") =>
        /\ hout.raised = NoExc
        /\ (hworld.etsFail \/ hworld.slotsFail) => hout.value = <<>>

\* the event type asked for, as the provider lists it (<<>> if it does not)
RequestedEventType ==
    LET found == {i \in DOMAIN hworld.ets :
                     hworld.ets[i].id = hcall.arguments.event_type_id}
    IN  IF found = {} THEN <<>> ELSE <<hworld.ets[Min(found)]>>

\* C26: every slot get_available_slots returns ends the length of the
\* requested event type after its start, 30 minutes after it when the event
\* type has no length, whatever length the provider attaches to the slot
SlotEndIsStartPlusDuration ==
    (Ran("CalComService.get_available_slots") /\ hout.raised = NoExc) =>
        \A i \in DOMAIN hout.value :
            /\ RequestedEventType # <<>>
            /\ hout.value[i].end - hout.value[i].start
                 = IF RequestedEventType[1].length = 0 THEN 30
                   ELSE RequestedEventType[1].length

\* witness of C26: slots of an event type without a length, while the
\* provider's own slots are 20 minutes long
LengthlessEventTypeSlotsLastThirty ==
    /\ Ran("CalComService.get_available_slots")
    /\ hout.raised = NoExc
    /\ Len(hout.value) >= 2
    /\ hworld.slotLength = 20
    /\ RequestedEventType[1].length = 0
    /\ \A i \in DOMAIN hout.value : hout.value[i].end = hout.value[i].start + 30

\* booking has an attendee whose email is the given one, letter case aside
HasAttendee(booking, email) ==
    \E i \in DOMAIN booking.attendees :
        Lower(booking.attendees[i].email) = Lower(email)

\* C27: with an email supplied, get_bookings returns the bookings of the
\* provider's answer that have an attendee with that email (compared
\* without regard to case): every returned booking has one, and every
\* booking that has one is returned
BookingsFilteredByAttendeeEmail ==
    ( /\ Ran("CalComService.get_bookings")
      /\ hcall.arguments.email # ""
      /\ hout.raised = NoExc )
    => /\ \A i \in DOMAIN hout.value : HasAttendee(hout.value[i], hcall.arguments.email)
       /\ \A j \in DOMAIN hworld.bookings :
             HasAttendee(hworld.bookings[j], hcall.arguments.email)
                => \E i \in DOMAIN hout.value : hout.value[i] = hworld.bookings[j]

\* witness of C27: the email is given in capitals; a booking whose attendee
\* is written in mixed case is returned and another booking is left out
MixedCaseAttendeeKeptOtherDropped ==
    /\ Ran("CalComService.get_bookings")
    /\ hcall.arguments.email = "JANE@EXAMPLE.COM"
    /\ hout.raised = NoExc
    /\ \E i \in DOMAIN hout.value : hout.value[i].uid = "bk-3"
    /\ Len(hout.value) < Len(hworld.bookings)

\* C28: when the list_events tool call carries start_date and end_date, the
\* bookings query sent to the provider covers that range of dates
ListEventsQueriesGivenRange ==
    ( /\ hout # Pending
      /\ hcall.name = "list_events"
      /\ hcall.arguments.start_date # Absent
      /\ hcall.arguments.end_date # Absent )
    => \A i \in DOMAIN hout.calls :
          hout.calls[i].op = "GET bookings"
             => /\ hout.calls[i].startTime \div DayLen = hcall.arguments.start_date
                /\ hout.calls[i].endTime \div DayLen = hcall.arguments.end_date

\* the bookings get_bookings gives the events endpoint for its request
ListedBookings ==
    CalComGetBookings(hworld, hcall.arguments.email, hcall.arguments.start_date,
                      hcall.arguments.end_date)

\* the positions, in booking order, of the bookings whose get_event succeeds
FetchedPositions ==
    LET bookings == ListedBookings.value
    IN  SelectIdx(bookings,
                  {b \in {bookings[i] : i \in DOMAIN bookings} :
                      ~LookupFails(hworld, b.uid)}, 1)

\* C29: when the bookings are listed, POST /calcom/events succeeds even if
\* get_event fails for some of them; its events are those of the bookings
\* whose get_event succeeded, in booking order, and total is their number
ListingToleratesDetailFailures ==
    (Ran("POST /calcom/events") /\ ListedBookings.raised = NoExc) =>
        /\ hout.raised = NoExc
        /\ Len(hout.value.events) = Len(FetchedPositions)
        /\ \A i \in DOMAIN hout.value.events :
              hout.value.events[i].uid = ListedBookings.value[FetchedPositions[i]].uid
        /\ hout.value.total = Len(hout.value.events)

\* witness of C29: of three bookings listed, the detail fetch fails for the
\* second only
MiddleBookingSkipped ==
    /\ Ran("POST /calcom/events")
    /\ ListedBookings.raised = NoExc
    /\ Len(ListedBookings.value) = 3
    /\ FetchedPositions = <<1, 3>>
    /\ hout.raised = NoExc
    /\ hout.value.total = 2

\* request r is past the resolution of its target date and time, and the
\* structured extraction gave a date and a start time (a string)
ExtractionUsable(r) ==
    /\ req[r].via = "endpoint"
    /\ req[r].date_query # <<>>
    /\ req[r].pc # "extracting"
    /\ LLMResolves(req[r].date_info)
    /\ req[r].date_info.start_text

\* C30: whenever the structured extraction yields a date and a start time,
\* the target date and time matched against the slots are those values
StructuredExtractionTakesPrecedence ==
    \A r \in Requests :
        ExtractionUsable(r) =>
            /\ req[r].target_date = req[r].date_info.date
            /\ req[r].target_time = req[r].date_info.start_time

\* requests r and q are messages of one session of one ChatService
SameSession(r, q) ==
    /\ r # q /\ Started(r) /\ Started(q)
    /\ req[r].svc = req[q].svc /\ req[r].session_id = req[q].session_id

\* positions of turn t in the sequence h
PositionsIn(h, t) == {i \in DOMAIN h : h[i] = t}

\* C31: messages of one session are not isolated from each other: the
\* history handed to the completion provider for a message holds the user
\* turn of every message of the session that arrived before it, finished or
\* in flight, and every turn another message appends later lands behind the
\* message's user turn (so it can lie between the message's own turns)
ConcurrentMessagesShareHistory ==
    \A r, q \in Requests :
        (SameSession(r, q) /\ q < r) =>
            /\ PositionsIn(req[r].sent, Turn("user", req[q].message, "", q)) # {}
            /\ \A u \in TurnsOf(r, "user"), x \in DOMAIN History(r) :
                  History(r)[x].origin = q =>
                     (x < u <=> x \in DOMAIN req[r].sent)

\* the interleaved history: message q was in flight when message r arrived,
\* the history sent for r holds the user turn of q and no answer to it, and
\* the user turn of r lies between the user turn and the assistant turn of q
InterleavedHistory ==
    \E r, q \in Requests :
        /\ SameSession(r, q)
        /\ q \notin req[r].preceded
        /\ PositionsIn(req[r].sent, Turn("user", req[q].message, "", q)) # {}
        /\ \A i \in DOMAIN req[r].sent :
              req[r].sent[i].origin = q => req[r].sent[i].role = "user"
        /\ \E uq \in TurnsOf(q, "user"), ur \in TurnsOf(r, "user"),
              aq \in TurnsOf(q, "assistant") : uq < ur /\ ur < aq

\* the bookings request r has committed: the book_event tool calls that
\* returned a booking, and the booking of the auto-booking step
DispatchedBookings(r) ==
    {i \in 1..req[r].done :
        req[r].function_calls[i].name = "book_event" /\ req[r].raised[i] = NoExc}

AutoBooked(r) ==
    req[r].pc = "responded" /\ req[r].booking # <<>> /\ req[r].booking_calls # <<>>

\* C32: a message whose turn holds at most one book_event call commits at
\* most one booking, the dispatch round and the auto-booking step counted
\* together
OneMessageOneBooking ==
    \A r \in Requests :
        Cardinality({i \in DOMAIN req[r].function_calls :
                        req[r].function_calls[i].name = "book_event"}) <= 1
        => Cardinality(DispatchedBookings(r)) + (IF AutoBooked(r) THEN 1 ELSE 0) <= 1

\* the time of day at which the slot booked for request r starts
BookedStart(r) ==
    LET start == req[r].booking[1].start_time
    IN  TimeOfDay((start % DayLen) \div 60, start % 60)

\* C33: the confirmation of an automatic booking names the time of day at
\* which the booked slot starts, also for a slot taken by the same-day
\* fallback
ConfirmationNamesBookedStart ==
    \A r \in Requests :
        AutoBooked(r) =>
            req[r].response.response =
                "Appointment booked successfully for " \o req[r].name \o " on "
                \o DateText(req[r].booking[1].start_time \div DayLen) \o " at "
                \o TimeText(BookedStart(r)) \o ". Booking ID: " \o BaseWorld.uid

\* C34: calls on one ChatService that name the same session id share one
\* history: it has one System turn, at its head, it holds the user turn of
\* each of the calls, and what the earlier call sent to the completion
\* provider is the beginning of what the later call sent
OneHistoryPerSessionId ==
    \A r, q \in Requests :
        ( /\ r # q /\ Started(r) /\ Started(q) /\ req[r].svc = req[q].svc
          /\ req[r].session_arg # NoSession
          /\ req[q].session_arg = req[r].session_arg )
        => /\ req[r].session_id = req[q].session_id
           /\ {i \in DOMAIN History(r) : History(r)[i].role = "system"} = {1}
           /\ Cardinality(TurnsOf(r, "user")) = 1
           /\ Cardinality(TurnsOf(q, "user")) = 1
           /\ req[r].sent[1] = SystemTurn /\ req[q].sent[1] = SystemTurn
           /\ q < r => IsPrefix(req[q].sent, req[r].sent)

\* two calls in flight at once that name a session id unknown until the
\* first of them
ConcurrentFirstUse ==
    \E r, q \in Requests :
        /\ SameSession(r, q) /\ q < r
        /\ req[r].session_arg # NoSession
        /\ req[r].pc = "completion" /\ req[q].pc = "completion"
        /\ Len(req[q].sent) = 2 /\ Len(req[r].sent) = 3

\* the requests whose turns go to session id of service svc
MessagesOf(svc, id) ==
    {r \in Requests : Started(r) /\ req[r].svc = svc /\ req[r].session_id = id}

\* C35: once every call on a session has returned, the history holds of
\* each message exactly its user turn, its assistant turn and one
\* tool-result turn per tool call, in this order, and no other turn but the
\* System turn
NoTurnLost ==
    \A svc \in DOMAIN sessions : \A id \in DOMAIN sessions[svc] :
        (\A r \in MessagesOf(svc, id) : req[r].pc = "returned") =>
            /\ \A i \in DOMAIN sessions[svc][id] :
                  i > 1 => sessions[svc][id][i].origin \in MessagesOf(svc, id)
            /\ \A r \in MessagesOf(svc, id) :
                  /\ PositionsIn(History(r), Turn("user", req[r].message, "", r)) # {}
                  /\ PositionsIn(History(r), Turn("assistant", req[r].content, "", r)) # {}
                  /\ Cardinality(TurnsOf(r, "user")) = 1
                  /\ Cardinality(TurnsOf(r, "assistant")) = 1
                  /\ Cardinality(TurnsOf(r, "function")) = Len(req[r].function_calls)
                  /\ \A i \in DOMAIN FunctionTurns(r) :
                        FunctionTurns(r)[i].name = req[r].function_calls[i].name
                  /\ \A u \in TurnsOf(r, "user"), a \in TurnsOf(r, "assistant") :
                        u < a /\ \A f \in TurnsOf(r, "function") : a < f

\* two messages of one session, each with a tool call, have both returned
\* after running interleaved: neither has all its turns next to each other
BothReturnedInterleaved ==
    \E r, q \in Requests :
        /\ SameSession(r, q) /\ q < r
        /\ req[r].pc = "returned" /\ req[q].pc = "returned"
        /\ req[r].done = 1 /\ req[q].done = 1
        /\ \E uq \in TurnsOf(q, "user"), ur \in TurnsOf(r, "user"),
              aq \in TurnsOf(q, "assistant"), ar \in TurnsOf(r, "assistant"),
              fq \in TurnsOf(q, "function"), fr \in TurnsOf(r, "function") :
                 uq < ur /\ ur < aq /\ aq < ar /\ ar < fq /\ fq < fr

\* the completion call of request r has failed
CompletionFailed(r) == req[r].pc = "failed" /\ req[r].cause = CompletionError

\* C36: when the completion call of a message fails, the request ends in
\* the error of the completion provider, and the session stays as the call
\* left it: it exists, and its history is the one sent to the provider,
\* ending with the user turn of the message, with no assistant or
\* tool-result turn of the message
FailedCompletionLeavesUserTurn ==
    \A r \in Requests :
        CompletionFailed(r) =>
            /\ req[r].exc.cls = "OpenAIAPIError" /\ req[r].exc.status_code = 500
            /\ "status_code" \in DOMAIN req[r].response
                  => /\ req[r].response.status_code = 500
                     /\ req[r].response.error.code = "openaiapierror"
            /\ req[r].svc \in DOMAIN sessions
            /\ req[r].session_id \in DOMAIN sessions[req[r].svc]
            /\ History(r) = req[r].sent
            /\ History(r)[Len(History(r))] = Turn("user", req[r].message, "", r)
            /\ TurnsOf(r, "assistant") = {} /\ TurnsOf(r, "function") = {}

\* a request answered with the error payload of a failed completion call
CompletionFailureAnswered ==
    \E r \in Requests :
        /\ CompletionFailed(r)
        /\ "status_code" \in DOMAIN req[r].response
        /\ Len(History(r)) = 2

\* C37: every step send_message takes after process_message has returned
\* (building the response, the date/time extraction, the booking and its
\* outcome) leaves all histories as they are
AutoBookingLeavesHistory ==
    [][ \A r \in Requests :
          (req[r].pc \in {"returned", "extracting", "booking"} /\ req'[r] # req[r])
          => sessions' = sessions ]_vars

\* a message answered with the confirmation of an automatic booking whose
\* history holds the turns of process_message and nothing else
AutoBookingNotInHistory ==
    \E r \in Requests :
        /\ AutoBooked(r)
        /\ History(r) = req[r].sent \o <<Turn("assistant", req[r].content, "", r)>>
                                    \o FunctionTurns(r)
        /\ Len(FunctionTurns(r)) = req[r].done
        /\ \A i \in DOMAIN History(r) :
              History(r)[i].content # req[r].response.response

\* request r has built its response from a turn with tool calls whose first
\* call returned a result
FirstCallShown(r) ==
    /\ req[r].via = "endpoint"
    /\ req[r].pc \in {"extracting", "booking", "responded"}
    /\ req[r].function_calls # <<>>
    /\ req[r].raised[1] = NoExc

\* C38: the tool result that the response shows, and that the auto-booking
\* step reads its slots from, is the result of the first tool call of the
\* turn, the call echoed in action_details
ShownResultIsFirstCalls ==
    \A r \in Requests :
        FirstCallShown(r) =>
            /\ req[r].function_results[req[r].function_calls[1].name] = req[r].results[1]
            /\ ~AutoBooked(r) =>
                  /\ req[r].response.response = PlainText(r)
                  /\ req[r].response.action_details = <<req[r].function_calls[1]>>
            /\ req[r].triggered => SlotsData(req[r]) = req[r].results[1]

=============================================================================
